---- MODULE Spec2Model ----
(***************************************************************************)
(* Ingestion-and-deduplication pipeline of my-job-hunter.                  *)
(*                                                                         *)
(* The model follows src/unnamed/part_016 (ingestion/orchestrator.ts),     *)
(* src/src/ingestion/scheduler.ts, the process entry point kept at         *)
(* src/src/db/schema.ts:143-188 and the listing query of                   *)
(* src/unnamed/part_000 (db/queries.ts).  The filters are those of         *)
(* src/src/ingestion/filters.ts, the canonical key that of                 *)
(* src/unnamed/part_015 (ingestion/normalizer.ts), and fetchJobs that of   *)
(* the provider adapters under src/src/ingestion/providers.  Six           *)
(* specifications share the variables: Spec (the pipeline), SpecScoring    *)
(* (the scoring stage), SpecNormalizer (filters and normalizer on one      *)
(* batch), SpecAdapter (the fetchJobs calls of one adapter), SpecInsert    *)
(* (the insert loop of two concurrent tasks on batches of two records)     *)
(* and SpecRetry (successive runs of one provider over one posting).       *)
(*                                                                         *)
(* One action is one turn of the Node event loop: the completion of the    *)
(* awaited I/O call (a provider fetch, one SQL statement) together with    *)
(* the synchronous continuation that runs up to the next await.  Every SQL *)
(* statement is its own transaction (autocommit), so statements of         *)
(* concurrent tasks interleave at statement granularity.                   *)
(***************************************************************************)
EXTENDS Integers, Sequences, FiniteSets, TLC

(* ------------------------------ bounds -------------------------------- *)

\* Longest list of raw postings one fetchJobs call returns.
MaxBatch == 1

\* Number of cron ticks that start a run during the life of the process
\* (the ticks that find a run in progress are not bounded).
MaxTicks == 1

\* Number of I/O calls (provider fetches, SQL statements) that fail during
\* the life of the process.
MaxFaults == 2

(* -------------------------------- texts ------------------------------- *)

\* A string is the sequence of its characters, each a string of length
\* one.  An absent (undefined) string property is the value Undefined.
Undefined == <<"undefined">>

EmptyString == <<>>

\* !s: undefined and '' are falsy.
Falsy(s) == s = Undefined \/ s = EmptyString

\* s || ''
OrEmpty(s) == IF Falsy(s) THEN EmptyString ELSE s

UpperCaseLetters == <<"A", "B", "C", "D", "E", "F", "G", "H", "I", "J", "K", "L", "M", "N", "O", "P", "Q", "R", "S", "T", "U", "V", "W", "X", "Y", "Z">>

LowerCaseLetters == <<"a", "b", "c", "d", "e", "f", "g", "h", "i", "j", "k", "l", "m", "n", "o", "p", "q", "r", "s", "t", "u", "v", "w", "x", "y", "z">>

Digits == {"0", "1", "2", "3", "4", "5", "6", "7", "8", "9"}

ToLowerChar(c) ==
  IF \E i \in 1..Len(UpperCaseLetters) : UpperCaseLetters[i] = c
  THEN LowerCaseLetters[CHOOSE i \in 1..Len(UpperCaseLetters) : UpperCaseLetters[i] = c]
  ELSE c

\* String.prototype.toLowerCase
ToLowerCase(s) == [i \in 1..Len(s) |-> ToLowerChar(s[i])]

\* The regular-expression classes \s and \w on the characters in use.
IsSpace(c) == c \in {" ", "\t", "\n", "\r"}

IsWordChar(c) ==
  \/ \E i \in 1..Len(LowerCaseLetters) : c \in {LowerCaseLetters[i], UpperCaseLetters[i]}
  \/ c \in Digits
  \/ c = "_"

\* The offsets at which t occurs in s.
Occurrences(s, t) ==
  {i \in 0..(Len(s) - Len(t)) : SubSeq(s, i + 1, i + Len(t)) = t}

\* String.prototype.includes
Includes(s, t) == Occurrences(s, t) # {}

Least(S) == CHOOSE x \in S : \A y \in S : x <= y

Greatest(S) == CHOOSE x \in S : \A y \in S : x >= y

\* s.replace(/\s+/g, ' ')
CollapseWhitespace(s) ==
  LET marked == [i \in 1..Len(s) |->
                   [ch   |-> IF IsSpace(s[i]) THEN " " ELSE s[i],
                    keep |-> ~(IsSpace(s[i]) /\ i > 1 /\ IsSpace(s[IF i > 1 THEN i - 1 ELSE 1]))]]
      kept == SelectSeq(marked, LAMBDA m : m.keep)
  IN  [i \in 1..Len(kept) |-> kept[i].ch]

\* String.prototype.trim
Trim(s) ==
  LET solid == {i \in 1..Len(s) : ~IsSpace(s[i])}
  IN  IF solid = {} THEN EmptyString ELSE SubSeq(s, Least(solid), Greatest(solid))

\* s.slice(0, n)
Slice(s, n) == SubSeq(s, 1, IF Len(s) < n THEN Len(s) ELSE n)

\* s.replace(/[.,]/g, '')
StripPunctuation(s) == SelectSeq(s, LAMBDA c : c \notin {".", ","})

\* s.replace(pattern, replacement) for a literal pattern with the g flag.
RECURSIVE ReplaceAll(_, _, _)
ReplaceAll(s, pattern, replacement) ==
  IF Occurrences(s, pattern) = {} \/ pattern = EmptyString THEN s
  ELSE LET i == Least(Occurrences(s, pattern))
       IN  SubSeq(s, 1, i) \o replacement
             \o ReplaceAll(SubSeq(s, i + Len(pattern) + 1, Len(s)), pattern, replacement)

\* \b between the characters at offsets k and k + 1 of s.
WordBoundary(s, k) ==
  LET before == k >= 1 /\ k <= Len(s) /\ IsWordChar(s[IF k >= 1 /\ k <= Len(s) THEN k ELSE 1])
      after  == k + 1 >= 1 /\ k + 1 <= Len(s)
                  /\ IsWordChar(s[IF k + 1 >= 1 /\ k + 1 <= Len(s) THEN k + 1 ELSE 1])
  IN  before # after

\* The alternatives of words (in the order the regular expression tries
\* them) that match at offset i of s between two word boundaries.
WordMatches(s, words, i) ==
  {w \in 1..Len(words) :
     /\ i + Len(words[w]) <= Len(s)
     /\ SubSeq(s, i + 1, i + Len(words[w])) = words[w]
     /\ WordBoundary(s, i)
     /\ WordBoundary(s, i + Len(words[w]))}

\* s.replace(/\b(w1|w2|..)\b/g, replacement): the scan from offset i on.
RECURSIVE ReplaceWordsFrom(_, _, _, _)
ReplaceWordsFrom(s, words, replacement, i) ==
  IF i >= Len(s) THEN SubSeq(s, i + 1, Len(s))
  ELSE IF WordMatches(s, words, i) = {}
       THEN <<s[i + 1]>> \o ReplaceWordsFrom(s, words, replacement, i + 1)
       ELSE LET w == words[Least(WordMatches(s, words, i))]
            IN  replacement \o ReplaceWordsFrom(s, words, replacement, i + Len(w))

ReplaceWords(s, words, replacement) == ReplaceWordsFrom(s, words, replacement, 0)

\* Number of runProviderIngestion calls of the SerpApi provider in the
\* month that is looked at.
MaxSerpApiRuns == 3

(* ------------------------------ filters ------------------------------- *)

\* for (const keyword of keywords) if (some text includes
\* keyword.toLowerCase()) ..: the index of the first keyword, from the
\* k-th on, that one of the texts includes, or 0.
RECURSIVE FirstKeyword(_, _, _)
FirstKeyword(texts, keywords, k) ==
  IF k > Len(keywords) THEN 0
  ELSE IF \E text \in texts : Includes(text, ToLowerCase(keywords[k]))
       THEN k
       ELSE FirstKeyword(texts, keywords, k + 1)

\* Mutant: a role filter that looks for an include keyword first.
PassesRoleFilterIncludeFirst(job, filters) ==
  LET title == ToLowerCase(job.title)
  IN  IF FirstKeyword({title}, filters.include_titles, 1) # 0 THEN TRUE
      ELSE FALSE

\* filters.ts passesRoleFilter
PassesRoleFilter(job, filters) ==
  LET title == ToLowerCase(job.title)
  IN  IF FirstKeyword({title}, filters.exclude_titles, 1) # 0 THEN FALSE
      ELSE IF FirstKeyword({title}, filters.include_titles, 1) # 0 THEN TRUE
      ELSE FALSE

\* The location the always-pass branch of passesLocationFilter tests for.
HomeCity == <<"t", "o", "r", "o", "n", "t", "o">>

\* filters.ts passesLocationFilter
PassesLocationFilter(job, filters) ==
  LET location == ToLowerCase(OrEmpty(job.location))
      description == ToLowerCase(OrEmpty(job.description))
      hasRemoteSignal == FirstKeyword({location, description}, filters.remote_indicators, 1) # 0
  IN  IF Includes(location, HomeCity) THEN TRUE
      ELSE IF ~hasRemoteSignal THEN FALSE
      ELSE IF FirstKeyword({location, description}, filters.onsite_indicators, 1) # 0 THEN FALSE
      ELSE TRUE

(* ----------------------------- normalizer ----------------------------- *)

\* s.replace(/<[^>]*>/g, ' ')
RECURSIVE StripTags(_)
StripTags(s) ==
  LET opens == {i \in 1..Len(s) : s[i] = "<" /\ \E j \in (i + 1)..Len(s) : s[j] = ">"}
  IN  IF opens = {} THEN s
      ELSE LET i == Least(opens)
               j == Least({k \in (i + 1)..Len(s) : s[k] = ">"})
           IN  SubSeq(s, 1, i - 1) \o <<" ">> \o StripTags(SubSeq(s, j + 1, Len(s)))

\* normalizer.ts stripHtml
StripHtml(html) ==
  Trim(CollapseWhitespace(
    ReplaceAll(ReplaceAll(ReplaceAll(ReplaceAll(StripTags(html),
      <<"&", "n", "b", "s", "p", ";">>, <<" ">>), <<"&", "a", "m", "p", ";">>, <<"&">>), <<"&", "l", "t", ";">>, <<"<">>), <<"&", "g", "t", ";">>, <<">">>)))

\* The alternatives of the legal-suffix expression of normalizeCompany, in
\* the order it tries them (an optional full stop is tried first).
COMPANY_SUFFIXES ==
  << <<"i", "n", "c", ".">>,
     <<"i", "n", "c">>,
     <<"i", "n", "c", "o", "r", "p", "o", "r", "a", "t", "e", "d">>,
     <<"l", "t", "d", ".">>,
     <<"l", "t", "d">>,
     <<"l", "i", "m", "i", "t", "e", "d">>,
     <<"c", "o", "r", "p", ".">>,
     <<"c", "o", "r", "p">>,
     <<"c", "o", "r", "p", "o", "r", "a", "t", "i", "o", "n">>,
     <<"l", "l", "c">>,
     <<"l", ".", "l", ".", "c", ".">>,
     <<"c", "o", ".">>,
     <<"c", "o">>,
     <<"c", "o", "m", "p", "a", "n", "y">> >>

\* normalizer.ts normalizeCompany
NormalizeCompany(name) ==
  Trim(CollapseWhitespace(StripPunctuation(
    ReplaceWords(ToLowerCase(name), COMPANY_SUFFIXES, EmptyString))))

\* normalizer.ts normalizeTitle
NormalizeTitle(title) ==
  Trim(CollapseWhitespace(
    ReplaceWords(
      ReplaceWords(ToLowerCase(title), << <<"s", "r", ".">>, <<"s", "r">> >>, <<"s", "e", "n", "i", "o", "r">>),
      << <<"j", "r", ".">>, <<"j", "r">> >>, <<"j", "u", "n", "i", "o", "r">>)))

\* The sentinel fingerprint of a posting without a description.
NoDescFingerprint == <<"n", "o", "d", "e", "s", "c">>

\* The number of characters of the description the fingerprint reads.
FingerprintPrefix == 500

\* createHash('sha256').update(s).digest('hex').slice(0, 12): the digest is
\* not computed; it is a text that determines s and that no other text
\* equals, so no two inputs collide.
Sha256Hex12(s) == <<"sha256:">> \o s

\* Mutant: a fingerprint that reads the description as it is written.
DescriptionFingerprintVerbatim(description) ==
  IF Falsy(description) THEN NoDescFingerprint ELSE Sha256Hex12(description)

\* normalizer.ts descriptionFingerprint
DescriptionFingerprint(description) ==
  IF Falsy(description) THEN NoDescFingerprint
  ELSE Sha256Hex12(Slice(Trim(CollapseWhitespace(ToLowerCase(description))), FingerprintPrefix))

KeySeparator == <<":", ":">>

\* normalizer.ts buildCanonicalKey
BuildCanonicalKey(company, title, description) ==
  NormalizeCompany(company) \o KeySeparator \o NormalizeTitle(title)
    \o KeySeparator \o DescriptionFingerprint(description)

\* normalizer.ts normalizeJobs, on the columns of the model.
NormalizeJobs(raws, providerName) ==
  [k \in 1..Len(raws) |->
     LET raw == raws[k]
         strippedDescription ==
           IF Falsy(raw.description) THEN Undefined ELSE StripHtml(raw.description)
     IN  [externalId   |-> raw.externalId,
          provider     |-> providerName,
          title        |-> raw.title,
          company      |-> raw.company,
          description  |-> strippedDescription,
          canonicalKey |-> BuildCanonicalKey(raw.company, raw.title, strippedDescription)]]

(* ------------------------------ inputs -------------------------------- *)

\* External ids a source hands out.
ExternalIds == {"e1"}

\* orchestrator.ts PROVIDER_TIERS
PROVIDER_TIERS ==
  << {"coresignal"},
     {"brightdata"},
     {"greenhouse", "ashby", "adzuna", "remotive"},
     {"serpapi"} >>

NumTiers == Len(PROVIDER_TIERS)

Providers == UNION {PROVIDER_TIERS[i] : i \in 1..NumTiers}

TierOf(p) == CHOOSE i \in 1..NumTiers : p \in PROVIDER_TIERS[i]

\* The two callers of runIngestion: main() on startup and the cron handler.
Runs == {"startup", "cron"}

\* NULL of likely_duplicate_of_id; row ids are 1, 2, ...
NULL == 0

\* The filters section of providers.yml that loadProvidersConfig returns.
ConfiguredFilters ==
  [ exclude_titles    |-> << <<"f", "r", "o", "n", "t", "e", "n", "d">>, <<"u", "i", " ", "e", "n", "g", "i", "n", "e", "e", "r">> >>,
    include_titles    |-> << <<"e", "n", "g", "i", "n", "e", "e", "r">>, <<"s", "w", "e">> >>,
    location_keywords |-> << <<"t", "o", "r", "o", "n", "t", "o">>, <<"c", "a", "n", "a", "d", "a">>, <<"r", "e", "m", "o", "t", "e">> >>,
    remote_indicators |-> << <<"r", "e", "m", "o", "t", "e">>, <<"w", "o", "r", "k", " ", "f", "r", "o", "m", " ", "h", "o", "m", "e">> >>,
    onsite_indicators |-> << <<"h", "y", "b", "r", "i", "d">>, <<"o", "n", "s", "i", "t", "e">> >> ]

\* The raw postings the sources serve: a title that passes the role
\* filter or one that does not, a location that passes the location
\* filter or one that does not, with or without a description.
RawJobs ==
  [ externalId  : ExternalIds,
    title       : {<<"S", "W", "E">>, <<"P", "M">>},
    company     : {<<"A", "c", "m", "e", " ", "I", "n", "c", ".">>},
    location    : {<<"R", "e", "m", "o", "t", "e">>, <<"O", "t", "t", "a", "w", "a">>},
    description : {Undefined, <<"B", "u", "i", "l", "d", " ", "A", "P", "I", "s">>} ]

\* A posting that passes both filters and has no description.
BarePosting ==
  [ externalId  |-> "e1",
    title       |-> <<"S", "W", "E">>,
    company     |-> <<"A", "c", "m", "e", " ", "I", "n", "c", ".">>,
    location    |-> <<"R", "e", "m", "o", "t", "e">>,
    description |-> Undefined ]

\* The canonical keys the normalizer computes for the postings.
Keys == {BuildCanonicalKey(raw.company, raw.title, raw.description) : raw \in RawJobs}

RECURSIVE SeqsUpTo(_, _)
SeqsUpTo(S, n) ==
  IF n = 0 THEN {<<>>}
  ELSE LET shorter == SeqsUpTo(S, n - 1)
       IN  shorter \cup {Append(s, x) : s \in {t \in shorter : Len(t) = n - 1}, x \in S}

\* A row an earlier life of the process has left in the store: stored by
\* serpapi, not seen again for more than STALE_DAYS and marked stale.
StaleRow ==
  [ externalId          |-> "e1",
    provider            |-> "serpapi",
    canonicalKey        |-> BuildCanonicalKey(BarePosting.company, BarePosting.title,
                                              BarePosting.description),
    likelyDuplicateOfId |-> NULL,
    isStale             |-> TRUE,
    old                 |-> TRUE ]

\* The environments the process runs in: the provider set buildProviders
\* returns (providers.yml and the API keys), RUN_INGESTION_ON_STARTUP, the
\* postings the sources serve, and the rows the store holds at startup.
Envs ==
  { [providers |-> {}, runOnStartup |-> TRUE, catalog |-> RawJobs, stored |-> <<>>],
    [providers |-> {"brightdata", "serpapi"}, runOnStartup |-> TRUE,
     catalog |-> {BarePosting},
     stored |-> <<>>],
    [providers |-> {"greenhouse", "ashby", "serpapi"}, runOnStartup |-> FALSE,
     catalog |-> RawJobs, stored |-> <<>>],
    [providers |-> {"serpapi"}, runOnStartup |-> TRUE,
     catalog |-> {BarePosting},
     stored |-> <<StaleRow>>] }

(* ------------------------------- state -------------------------------- *)

VARIABLES
  jobs,          \* the jobs table: a sequence of rows, row i has id i
  enabled,       \* the providers buildProviders returns
  runOnStartup,  \* env.RUN_INGESTION_ON_STARTUP
  catalog,       \* the raw postings the sources serve
  booted,        \* main() has started the scheduler
  isRunning,     \* scheduler.ts isRunning
  ticks,         \* cron ticks that started a run so far
  lastTick,      \* what the latest cron callback did: "none", "ran", "skipped"
  run,           \* per caller: the runIngestion call in progress
  task,          \* per caller and provider: the runProviderIngestion call
  faults         \* I/O calls that have failed so far

VARIABLES
  cols,          \* the jobs table: the columns the scoring stage reads or writes
  config,        \* config/scoring.ts _config, the loaded scoring configuration
  world,         \* what the extraction service and scoring.yml can deliver
  scoreTask,     \* per provider: the scoreNewJobs call
  rescore,       \* the /rescore command in progress
  rescores,      \* /rescore commands received so far
  calls,         \* history: the calls made to the two external services
  history        \* history: per row, who wrote its score last, from what
                 \* metadata and under which scoring configuration

VARIABLES
  ingest,          \* the filter and normalizer stage of one runProviderIngestion call
  providersConfig  \* what loadProvidersConfig returns

VARIABLES
  adapter,       \* the provider whose fetchJobs is called, and its sub-boards
  board,         \* per sub-board: the fetch of that sub-board
  fetchCall,     \* the fetchJobs call and what it settles with
  serpapi        \* SerpApi: the month's log rows and requests, the locals of fetchJobs

pipelineVars == <<jobs, enabled, runOnStartup, catalog, booted, isRunning, ticks, lastTick, run, task, faults>>

scoringVars == <<cols, config, world, scoreTask, rescore, rescores, calls, history>>

normalizerVars == <<ingest, providersConfig>>

adapterVars == <<adapter, board, fetchCall, serpapi>>

\* What the steps of the scoring stage leave alone besides the pipeline.
stageVars == <<normalizerVars, adapterVars>>

\* What the steps of the pipeline leave alone.
otherVars == <<scoringVars, stageVars>>

vars == <<pipelineVars, scoringVars, normalizerVars, adapterVars>>

\* An awaited I/O call throws (rejects) / returns.
Throws == faults < MaxFaults /\ faults' = faults + 1

Returns == UNCHANGED faults

(* --------------------------- the jobs table --------------------------- *)

RowIds == 1..Len(jobs)

\* schema.ts jobs: the columns the pipeline's identity, dedup and
\* staleness logic reads or writes.  old stands for
\* updatedAt < now - STALE_DAYS.
NewRow(job) ==
  [ externalId          |-> job.externalId,
    provider            |-> job.provider,
    canonicalKey        |-> job.canonicalKey,
    likelyDuplicateOfId |-> NULL,
    isStale             |-> FALSE,
    old                 |-> FALSE ]

\* Mutant: the INSERT without its ON CONFLICT target never sees a conflict.
ConflictRowsNever(job) == {}

\* The rows the unique index uq_jobs_external_provider matches.
ConflictRows(job) ==
  {id \in RowIds : /\ jobs[id].externalId = job.externalId
                   /\ jobs[id].provider = job.provider}

\* Mutant: a duplicate lookup that sees no row of another task.
SameKeyRowsNone(key, id) == {}

\* Mutant: the duplicate lookup without its canonical_key condition.
SameKeyRowsAnyKey(key, id) == {other \in RowIds : other # id}

\* The rows the duplicate lookup may return: same canonicalKey, other id.
\* The query has LIMIT 1 and no ORDER BY, so any one of them is returned.
SameKeyRows(key, id) ==
  {other \in RowIds : jobs[other].canonicalKey = key /\ other # id}

\* Mutant: the listing without isNull(likelyDuplicateOfId).
ListingWithDuplicates == {id \in RowIds : ~jobs[id].isStale}

\* queries.ts queryJobsInterleaved: the two unconditional conditions.
Listing == {id \in RowIds : ~jobs[id].isStale /\ jobs[id].likelyDuplicateOfId = NULL}

(* ------------------------- one provider's task ------------------------ *)

NoError == "undefined"

ErrorMsg == "message"

ZeroResult(p) ==
  [ provider            |-> p,
    fetched             |-> 0,
    afterRoleFilter     |-> 0,
    afterLocationFilter |-> 0,
    inserted            |-> 0,
    duplicates          |-> 0,
    scored              |-> 0,
    error               |-> NoError ]

NotStarted(p) ==
  [ pc              |-> "none",
    batch           |-> <<>>,
    i               |-> 0,
    newId           |-> NULL,
    existing        |-> NULL,
    inserted        |-> <<>>,
    duplicatesFound |-> 0,
    result          |-> ZeroResult(p) ]

\* runProviderIngestion up to its first await: provider.fetchJobs() is called.
Started(p) == [NotStarted(p) EXCEPT !.pc = "fetch"]

Settled(t) == t.pc \in {"fulfilled", "rejected"}

\* The end of insertNewJobs and what follows it without an I/O wait:
\* an empty inserted list makes scoreNewJobs return 0 at once, and the
\* run log is written next.
AfterInsertLoop(t) ==
  LET res == [t.result EXCEPT !.inserted = Len(t.inserted),
                              !.duplicates = t.duplicatesFound]
  IN  IF Len(t.inserted) = 0
      THEN [t EXCEPT !.pc = "log", !.result = res, !.newId = NULL, !.existing = NULL]
      ELSE [t EXCEPT !.pc = "score", !.result = res, !.newId = NULL, !.existing = NULL]

\* Mutant: a loop that ends with the record it has just handled.
NextJobBreak(t) == AfterInsertLoop(t)

\* The for-loop of insertNewJobs moves on to the next job (after a push,
\* a refresh, or the catch of a failed statement).
NextJob(t) ==
  IF t.i < Len(t.batch)
  THEN [t EXCEPT !.pc = "insert", !.i = t.i + 1, !.newId = NULL, !.existing = NULL]
  ELSE AfterInsertLoop(t)

SetTask(r, p, t) == task' = [task EXCEPT ![r][p] = t]

\* provider.fetchJobs() settles; on success the filters, the normalizer
\* and the first INSERT follow without a wait.
FetchJobs(r, p) ==
  /\ task[r][p].pc = "fetch"
  /\ \/ \E raw \in SeqsUpTo(catalog, MaxBatch) :
          /\ Returns
          /\ LET t == task[r][p]
                 roleFiltered ==
                   SelectSeq(raw, LAMBDA job : PassesRoleFilter(job, ConfiguredFilters))
                 locationFiltered ==
                   SelectSeq(roleFiltered,
                             LAMBDA job : PassesLocationFilter(job, ConfiguredFilters))
                 normalized == NormalizeJobs(locationFiltered, p)
                 res == [t.result EXCEPT !.fetched = Len(raw),
                                         !.afterRoleFilter = Len(roleFiltered),
                                         !.afterLocationFilter = Len(locationFiltered)]
             IN  IF Len(normalized) = 0
                 THEN SetTask(r, p, [t EXCEPT !.pc = "log", !.result = res])
                 ELSE SetTask(r, p, [t EXCEPT !.pc = "insert", !.result = res,
                                              !.batch = normalized, !.i = 1])
     \/ /\ Throws
        /\ SetTask(r, p, [task[r][p] EXCEPT !.pc = "catchlog", !.result.error = ErrorMsg])
  /\ UNCHANGED <<jobs, enabled, runOnStartup, catalog, booted, isRunning, ticks, lastTick, run>>
  /\ UNCHANGED otherVars

\* INSERT ... ON CONFLICT (external_id, provider) DO NOTHING RETURNING *
InsertJob(r, p) ==
  LET t == task[r][p]
      job == t.batch[t.i]
  IN  /\ t.pc = "insert"
      /\ \/ /\ Returns
            /\ ConflictRows(job) = {}
            /\ jobs' = Append(jobs, NewRow(job))
            /\ SetTask(r, p, [t EXCEPT !.pc = "lookup", !.newId = Len(jobs) + 1])
         \/ /\ Returns
            /\ ConflictRows(job) # {}
            /\ SetTask(r, p, [t EXCEPT !.pc = "refresh"])
            /\ UNCHANGED jobs
         \/ /\ Throws
            /\ SetTask(r, p, NextJob(t))
            /\ UNCHANGED jobs
      /\ UNCHANGED <<enabled, runOnStartup, catalog, booted, isRunning, ticks, lastTick, run>>
      /\ UNCHANGED otherVars

\* SELECT id, provider FROM jobs WHERE canonical_key = .. AND id <> .. LIMIT 1
\* When it finds no row, the advisory same-company-and-title SELECT
\* follows: it reads and logs only, and the job is pushed to inserted
\* unless one of the two SELECTs throws.
LookupExisting(r, p) ==
  LET t == task[r][p]
      found == SameKeyRows(t.batch[t.i].canonicalKey, t.newId)
  IN  /\ t.pc = "lookup"
      /\ \/ /\ Returns
            /\ \E e \in found : SetTask(r, p, [t EXCEPT !.pc = "link", !.existing = e])
         \/ /\ Returns
            /\ found = {}
            /\ SetTask(r, p, NextJob([t EXCEPT !.inserted = Append(t.inserted, t.batch[t.i])]))
         \/ /\ Throws
            /\ SetTask(r, p, NextJob(t))
      /\ UNCHANGED <<jobs, enabled, runOnStartup, catalog, booted, isRunning, ticks, lastTick, run>>
      /\ UNCHANGED otherVars

\* UPDATE jobs SET likely_duplicate_of_id = existing WHERE id = new
LinkDuplicate(r, p) ==
  LET t == task[r][p]
  IN  /\ t.pc = "link"
      /\ \/ /\ Returns
            /\ jobs' = [jobs EXCEPT ![t.newId].likelyDuplicateOfId = t.existing]
            /\ SetTask(r, p, NextJob([t EXCEPT !.duplicatesFound = t.duplicatesFound + 1,
                                               !.inserted = Append(t.inserted, t.batch[t.i])]))
         \/ /\ Throws
            /\ SetTask(r, p, NextJob(t))
            /\ UNCHANGED jobs
      /\ UNCHANGED <<enabled, runOnStartup, catalog, booted, isRunning, ticks, lastTick, run>>
      /\ UNCHANGED otherVars

\* Mutant: a re-observation that writes the row as a fresh insert would.
RefreshedAsFresh(row) == NewRow(row)

\* Mutant: a re-observation that also clears is_stale.
RefreshedUnstale(row) == [row EXCEPT !.old = FALSE, !.isStale = FALSE]

\* The SET clause of the re-observation UPDATE: updatedAt = new Date()
\* (description, compensation and location are outside these columns).
Refreshed(row) == [row EXCEPT !.old = FALSE]

\* Re-observation: UPDATE jobs SET updated_at = now(), description, ..
RefreshJob(r, p) ==
  LET t == task[r][p]
      job == t.batch[t.i]
  IN  /\ t.pc = "refresh"
      /\ \/ /\ Returns
            /\ jobs' = [id \in RowIds |->
                         IF id \in ConflictRows(job)
                         THEN Refreshed(jobs[id]) ELSE jobs[id]]
         \/ /\ Throws
            /\ UNCHANGED jobs
      /\ SetTask(r, p, NextJob(t))
      /\ UNCHANGED <<enabled, runOnStartup, catalog, booted, isRunning, ticks, lastTick, run>>
      /\ UNCHANGED otherVars

\* scoreNewJobs(inserted): every job's scoring either runs to its end
\* (scored++) or is skipped or caught; then the run log is written.
ScoreNewJobs(r, p) ==
  LET t == task[r][p]
  IN  /\ t.pc = "score"
      /\ \E n \in 0..Len(t.inserted) :
           SetTask(r, p, [t EXCEPT !.pc = "log", !.result.scored = n])
      /\ UNCHANGED <<jobs, enabled, runOnStartup, catalog, booted, isRunning, ticks, lastTick, run, faults>>
      /\ UNCHANGED otherVars

\* logIngestion at the end of the try block settles.
LogIngestion(r, p) ==
  LET t == task[r][p]
  IN  /\ t.pc = "log"
      /\ \/ /\ Returns
            /\ SetTask(r, p, [t EXCEPT !.pc = "fulfilled"])
         \/ /\ Throws
            /\ SetTask(r, p, [t EXCEPT !.pc = "catchlog", !.result.error = ErrorMsg])
      /\ UNCHANGED <<jobs, enabled, runOnStartup, catalog, booted, isRunning, ticks, lastTick, run>>
      /\ UNCHANGED otherVars

\* logIngestion of the catch block settles: its own failure is not caught.
CatchLogIngestion(r, p) ==
  LET t == task[r][p]
  IN  /\ t.pc = "catchlog"
      /\ \/ /\ Returns
            /\ SetTask(r, p, [t EXCEPT !.pc = "fulfilled"])
         \/ /\ Throws
            /\ SetTask(r, p, [t EXCEPT !.pc = "rejected"])
      /\ UNCHANGED <<jobs, enabled, runOnStartup, catalog, booted, isRunning, ticks, lastTick, run>>
      /\ UNCHANGED otherVars

(* ------------------------------ one run ------------------------------- *)

\* The order in which buildProviders pushes the providers; the order of a
\* tier's entries in results.
BuildOrder ==
  <<"greenhouse", "ashby", "adzuna", "remotive", "coresignal", "brightdata", "serpapi">>

NoRun == [pc |-> "idle", tier |-> 0, results |-> <<>>, staleMarked |-> 0, sweeps |-> 0]

InProgress(r) == run[r].pc \in {"tiers", "sweep"}

TierProviders(i) == PROVIDER_TIERS[i] \cap enabled

\* The for-loop over PROVIDER_TIERS skips the tiers without a provider:
\* the next tier to start after tier i, or 0 after the last one.
NextTier(i) ==
  IF \E j \in (i + 1)..NumTiers : TierProviders(j) # {}
  THEN CHOOSE j \in (i + 1)..NumTiers :
         /\ TierProviders(j) # {}
         /\ \A k \in (i + 1)..(j - 1) : TierProviders(k) = {}
  ELSE 0

\* Mutant: the tier is left as soon as one of its tasks has settled.
TierSettledSome(r) == \E p \in TierProviders(run[r].tier) : Settled(task[r][p])

\* Mutant: Promise.all in place of Promise.allSettled, the tier's results
\* are never delivered once a task has rejected.
TierSettledAllFulfilled(r) ==
  \A p \in TierProviders(run[r].tier) : task[r][p].pc = "fulfilled"

\* Promise.allSettled of the tier's tasks has resolved.
TierSettled(r) == \A p \in TierProviders(run[r].tier) : Settled(task[r][p])

\* for (const s of settled): the values of the fulfilled tasks, in order.
FulfilledResults(r) ==
  LET inTier(p) == /\ p \in TierProviders(run[r].tier)
                   /\ task[r][p].pc = "fulfilled"
      names == SelectSeq(BuildOrder, inTier)
  IN  [k \in 1..Len(names) |-> task[r][names[k]].result]

\* The loop of runIngestion from the tier after `from`: start that tier's
\* tasks, or, after the last tier, call markStaleJobs.
EnterTier(r, from, results) ==
  LET next == NextTier(from)
  IN  IF next = 0
      THEN /\ run' = [run EXCEPT ![r] = [pc |-> "sweep", tier |-> from,
                                        results |-> results, staleMarked |-> 0,
                                        sweeps |-> run[r].sweeps + 1]]
           /\ UNCHANGED task
      ELSE /\ run' = [run EXCEPT ![r] = [pc |-> "tiers", tier |-> next,
                                        results |-> results, staleMarked |-> 0,
                                        sweeps |-> run[r].sweeps]]
           /\ task' = [task EXCEPT ![r] =
                         [p \in Providers |->
                            IF p \in TierProviders(next) THEN Started(p) ELSE task[r][p]]]

\* Mutant: runIngestion without the early return for no providers.
RunIngestionNoEarlyReturn(r) == EnterTier(r, 0, <<>>)

\* runIngestion() is called: buildProviders, the early return when no
\* provider is enabled, else the first tier's tasks start.
RunIngestion(r) ==
  IF enabled = {}
  THEN /\ run' = [run EXCEPT ![r] = [NoRun EXCEPT !.pc = "returned"]]
       /\ UNCHANGED task
  ELSE EnterTier(r, 0, <<>>)

\* index.ts main(): startScheduler(), then the optional startup run.
Main ==
  /\ ~booted
  /\ booted' = TRUE
  /\ IF runOnStartup
     THEN RunIngestion("startup")
     ELSE UNCHANGED <<run, task>>
  /\ UNCHANGED <<jobs, enabled, runOnStartup, catalog, isRunning, ticks, lastTick, faults>>
  /\ UNCHANGED otherVars

\* scheduler.ts: the cron callback.
CronTick ==
  /\ booted
  /\ IF isRunning
     THEN /\ lastTick' = "skipped"
          /\ UNCHANGED <<isRunning, ticks, run, task>>
     ELSE /\ ticks < MaxTicks
          /\ ticks' = ticks + 1
          /\ lastTick' = "ran"
          /\ isRunning' = TRUE
          /\ RunIngestion("cron")
  /\ UNCHANGED <<jobs, enabled, runOnStartup, catalog, booted, faults>>
  /\ UNCHANGED otherVars

\* The tier's allSettled resolves: collect the results, go on.
TierDone(r) ==
  /\ run[r].pc = "tiers"
  /\ TierSettled(r)
  /\ EnterTier(r, run[r].tier, run[r].results \o FulfilledResults(r))
  /\ UNCHANGED <<jobs, enabled, runOnStartup, catalog, booted, isRunning, ticks, lastTick, faults>>
  /\ UNCHANGED otherVars

\* Mutant: the sweep without its updated_at condition.
StaleCandidatesAnyAge == {id \in RowIds : ~jobs[id].isStale}

\* The WHERE clause of the sweep: is_stale = false AND updated_at < cutoff.
StaleCandidates == {id \in RowIds : ~jobs[id].isStale /\ jobs[id].old}

\* markStaleJobs: UPDATE jobs SET is_stale = true WHERE NOT is_stale AND
\* updated_at < cutoff RETURNING id; then the summary is returned.
MarkStaleJobs(r) ==
  LET hit == StaleCandidates
  IN  /\ run[r].pc = "sweep"
      /\ \/ /\ Returns
            /\ jobs' = [id \in RowIds |->
                          IF id \in hit THEN [jobs[id] EXCEPT !.isStale = TRUE] ELSE jobs[id]]
            /\ run' = [run EXCEPT ![r].pc = "returned", ![r].staleMarked = Cardinality(hit)]
         \/ /\ Throws
            /\ run' = [run EXCEPT ![r].pc = "threw"]
            /\ UNCHANGED jobs
      /\ UNCHANGED <<enabled, runOnStartup, catalog, booted, isRunning, ticks, lastTick, task>>
      /\ UNCHANGED otherVars

\* Mutant: the cron handler clears isRunning after the await instead of
\* in a finally, so a run that threw leaves the guard set.
FinishNoFinally(r) ==
  /\ run[r].pc \in {"returned", "threw"}
  /\ run' = [run EXCEPT ![r] = NoRun]
  /\ task' = [task EXCEPT ![r] = [p \in Providers |-> NotStarted(p)]]
  /\ isRunning' = IF r = "cron" /\ run[r].pc = "returned" THEN FALSE ELSE isRunning
  /\ UNCHANGED <<jobs, enabled, runOnStartup, catalog, booted, ticks, lastTick, faults>>
  /\ UNCHANGED otherVars

\* The caller's continuation: the cron handler logs and, in its finally,
\* clears isRunning; main() only logs a failure.
Finish(r) ==
  /\ run[r].pc \in {"returned", "threw"}
  /\ run' = [run EXCEPT ![r] = NoRun]
  /\ task' = [task EXCEPT ![r] = [p \in Providers |-> NotStarted(p)]]
  /\ isRunning' = IF r = "cron" THEN FALSE ELSE isRunning
  /\ UNCHANGED <<jobs, enabled, runOnStartup, catalog, booted, ticks, lastTick, faults>>
  /\ UNCHANGED otherVars

\* More than STALE_DAYS pass with no run in progress: every row's
\* updatedAt is now older than the cutoff.
RetentionWindowPasses ==
  /\ \A r \in Runs : run[r].pc = "idle"
  /\ \E id \in RowIds : ~jobs[id].old
  /\ jobs' = [id \in RowIds |-> [jobs[id] EXCEPT !.old = TRUE]]
  /\ UNCHANGED <<enabled, runOnStartup, catalog, booted, isRunning, ticks, lastTick, run, task, faults>>
  /\ UNCHANGED otherVars

(* --------------------------- scoring stage ---------------------------- *)

\* Longest run of /rescore commands the process receives.
MaxRescores == 1

\* orchestrator.ts SCORING_CONCURRENCY
SCORING_CONCURRENCY == 5

\* summarizer.ts SUMMARY_SCORE_THRESHOLD (5.0), in hundredths like every
\* score and weight of the model; factors are in tenths.
SUMMARY_SCORE_THRESHOLD == 500

\* A text or jsonb column that is NULL / a variable that is null.
NoText == "null"

NoBreakdown == <<>>

\* analyzer.ts DEFAULTS
DEFAULTS ==
  [ seniority       |-> "unknown",
    remote_eligible |-> FALSE,
    interview_style |-> "unknown",
    role_type       |-> "software_engineer" ]

\* What analyzeJob returns: the extracted tuple as it is, or the DEFAULTS
\* with fromDefaults set.
Extracted(m) ==
  [ seniority       |-> m.seniority,
    remote_eligible |-> m.remote_eligible,
    interview_style |-> m.interview_style,
    role_type       |-> m.role_type,
    fromDefaults    |-> FALSE ]

FromDefaults ==
  [ seniority       |-> DEFAULTS.seniority,
    remote_eligible |-> DEFAULTS.remote_eligible,
    interview_style |-> DEFAULTS.interview_style,
    role_type       |-> DEFAULTS.role_type,
    fromDefaults    |-> TRUE ]

\* Tuples of the extraction schema the service is taken to answer with:
\* the best match, a tuple that scores just above the threshold at a US
\* location, and the tuple whose values equal the DEFAULTS.
BestMatch ==
  [ seniority |-> "senior", remote_eligible |-> TRUE,
    interview_style |-> "assignment", role_type |-> "backend" ]

NearThreshold ==
  [ seniority |-> "junior", remote_eligible |-> TRUE,
    interview_style |-> "leetcode", role_type |-> "backend" ]

Metadatas == {BestMatch, NearThreshold, DEFAULTS}

\* The ways the extraction call fails (analyzer.ts:80-89).
ExtractionFailures == {"throws", "noToolUse", "schemaInvalid"}

\* scoring.yml as documented (docs/design.md 5.2, scorer.test.ts).
DocumentedConfig ==
  [ weights |-> [ remote_eligible |-> 300, seniority_match |-> 250,
                  employer_location |-> 150, interview_style |-> 150,
                  role_type |-> 150 ],
    role_type_preferences |->
      [ k \in {"backend", "platform", "software_engineer", "fullstack"} |->
          CASE k = "backend" -> 10
            [] k = "platform" -> 10
            [] k = "software_engineer" -> 8
            [] k = "fullstack" -> 3 ],
    interview_preferences |->
      [ k \in {"assignment", "unknown", "leetcode"} |->
          CASE k = "assignment" -> 10
            [] k = "unknown" -> 5
            [] k = "leetcode" -> 0 ],
    target_seniority |-> {"senior", "mid"} ]

\* A scoring.yml that scoringConfigSchema accepts (every factor is a bare
\* z.number()): the backend preference entered as 2.0.
DoubledBackendConfig ==
  [ DocumentedConfig EXCEPT !.role_type_preferences["backend"] = 20 ]

\* Number.prototype.toFixed(2) read back with +, for a non-negative
\* quotient n / d in the unit of the result.
Round(n, d) == (2 * n + d) \div (2 * d)

\* scorer.ts getEmployerLocationFactor, on the class of the location text.
GetEmployerLocationFactor(location) ==
  CASE location = NoText   -> 5
    [] location = "canada" -> 10
    [] location = "us"     -> 5
    [] OTHER               -> 0

\* table[key] ?? 0.5
Preference(table, key) == IF key \in DOMAIN table THEN table[key] ELSE 5

\* scorer.ts scoreJob, below its loadScoringConfig() call.
ScoreWith(cfg, metadata, location) ==
  LET weights == cfg.weights
      remoteFactor == IF metadata.remote_eligible THEN 10 ELSE 0
      seniorityFactor ==
        IF metadata.seniority \in cfg.target_seniority THEN 10
        ELSE IF metadata.seniority \in {"lead", "staff"} THEN 3 ELSE 0
      employerFactor == GetEmployerLocationFactor(location)
      interviewFactor == Preference(cfg.interview_preferences, metadata.interview_style)
      roleTypeFactor == Preference(cfg.role_type_preferences, metadata.role_type)
      breakdown ==
        [ remote            |-> Round(remoteFactor * weights.remote_eligible, 10),
          seniority         |-> Round(seniorityFactor * weights.seniority_match, 10),
          employer_location |-> Round(employerFactor * weights.employer_location, 10),
          interview_style   |-> Round(interviewFactor * weights.interview_style, 10),
          role_type         |-> Round(roleTypeFactor * weights.role_type, 10) ]
      rawScore == breakdown.remote + breakdown.seniority + breakdown.employer_location
                    + breakdown.interview_style + breakdown.role_type
      maxPossible == weights.remote_eligible + weights.seniority_match
                       + weights.employer_location + weights.interview_style
                       + weights.role_type
  IN  [score |-> Round(rawScore * 1000, maxPossible), breakdown |-> breakdown]

\* scorer.ts scoreJob: the configuration is the cached _config.
ScoreJob(metadata, location) == ScoreWith(config, metadata, location)

\* Mutant: the score gate left open.
ShouldGenerateSummaryAlways(score) == TRUE

\* summarizer.ts shouldGenerateSummary
ShouldGenerateSummary(score) == score >= SUMMARY_SCORE_THRESHOLD

\* schema.ts jobs: the scoring columns of a freshly inserted row.
NewCols(job) ==
  [ description    |-> job.description,
    location       |-> job.location,
    remoteEligible |-> job.remoteEligible,
    seniority      |-> NoText,
    interviewStyle |-> "unknown",
    score          |-> 0,
    scoreBreakdown |-> NoBreakdown,
    summary        |-> NoText ]

NeverScored == [by |-> "none", fromDefaults |-> FALSE, config |-> <<>>]

\* job.likelyDuplicateOfId as scoreNewJobs reads it from the in-memory
\* NewJob: normalizeJobs builds the object without that property and
\* insertNewJobs writes the column only, so the read yields undefined.
LikelyDuplicateOfId(job) ==
  IF "likelyDuplicateOfId" \in DOMAIN job THEN job.likelyDuplicateOfId ELSE NULL

\* The row a job of a scoreNewJobs call stands for.
RowOf(job) == CHOOSE id \in RowIds : id \in ConflictRows(job)

(* One job of a scoreNewJobs call: the async function handed to limit().  *)

Queued ==
  [ pc |-> "queued", metadata |-> FromDefaults, score |-> 0,
    breakdown |-> NoBreakdown, summary |-> NoText, outcome |-> "none",
    extractionFailed |-> FALSE, updateThrew |-> FALSE,
    config |-> <<>> ]   \* history: the configuration scoreJob read

Done(j, outcome) ==
  [ Queued EXCEPT !.pc = "done", !.outcome = outcome,
                  !.extractionFailed = j.extractionFailed,
                  !.updateThrew = j.updateThrew ]

InFlight(j) == j.pc \in {"analyze", "summarize", "update"}

\* The function runs up to its first await: the two skips, or the call
\* of analyzeJob.
StartJob(job) ==
  IF LikelyDuplicateOfId(job) # NULL THEN Done(Queued, "skipped")
  ELSE IF ~job.description THEN Done(Queued, "skipped")
  ELSE [Queued EXCEPT !.pc = "analyze"]

ActiveCount(js) == Cardinality({k \in 1..Len(js) : InFlight(js[k])})

\* p-limit: queued functions start in order while fewer than
\* SCORING_CONCURRENCY of this limiter's functions are pending.
RECURSIVE Pump(_, _)
Pump(js, newJobs) ==
  LET queued == {k \in 1..Len(js) : js[k].pc = "queued"}
  IN  IF queued = {} \/ ActiveCount(js) >= SCORING_CONCURRENCY
      THEN js
      ELSE LET k == CHOOSE q \in queued : \A o \in queued : q <= o
           IN  Pump([js EXCEPT ![k] = StartJob(newJobs[k])], newJobs)

NoScoring == [pc |-> "idle", newJobs |-> <<>>, job |-> <<>>, scored |-> 0]

\* await Promise.allSettled(tasks) resolves once every function is done.
AfterJob(st) ==
  LET js == Pump(st.job, st.newJobs)
  IN  [st EXCEPT !.job = js,
                 !.pc = IF \A k \in 1..Len(js) : js[k].pc = "done"
                        THEN "returned" ELSE "running"]

\* Mutant: an extraction failure that is thrown on to scoreNewJobs' catch.
OnExtractionFailureRethrow(j, location) == Done([j EXCEPT !.extractionFailed = TRUE], "caught")

\* analyzeJob has returned metadata: scoreJob, then the score gate.
Analyzed(j, metadata, location) ==
  LET result == ScoreJob(metadata, location)
  IN  [j EXCEPT !.pc = IF ShouldGenerateSummary(result.score) THEN "summarize" ELSE "update",
                !.metadata = metadata,
                !.score = result.score,
                !.breakdown = result.breakdown,
                !.config = <<config>>]

\* analyzeJob's own catch and its missing-tool-block branch.
OnExtractionFailure(j, location) ==
  Analyzed([j EXCEPT !.extractionFailed = TRUE], FromDefaults, location)

\* scoreNewJobs(newJobs) is called with the list insertNewJobs returned.
ScoreNewJobsCall(p) ==
  LET st == scoreTask[p]
  IN  /\ st.pc = "idle"
      /\ Len(st.newJobs) > 0
      /\ scoreTask' = [scoreTask EXCEPT ![p] =
                         AfterJob([st EXCEPT !.job = [k \in 1..Len(st.newJobs) |-> Queued]])]
      /\ UNCHANGED <<cols, config, world, rescore, rescores, calls, history>>
      /\ UNCHANGED <<pipelineVars, stageVars>>

\* The extraction call of one job settles.
AnalyzeJob(p, k) ==
  LET st == scoreTask[p]
      j == st.job[k]
      job == st.newJobs[k]
  IN  /\ st.pc = "running"
      /\ k <= Len(st.job)
      /\ j.pc = "analyze"
      /\ \/ \E m \in world.extractions :
              /\ Returns
              /\ scoreTask' = [scoreTask EXCEPT ![p].job[k] =
                                 Analyzed(j, Extracted(m), job.location)]
         \/ \E how \in ExtractionFailures :
              /\ Throws
              /\ scoreTask' = [scoreTask EXCEPT ![p] =
                                 AfterJob([st EXCEPT !.job[k] =
                                             OnExtractionFailure(j, job.location)])]
      /\ calls' = calls \cup {[service |-> "extraction", id |-> RowOf(job),
                               score |-> 0, by |-> "ingest"]}
      /\ UNCHANGED <<cols, config, world, rescore, rescores, history>>
      /\ UNCHANGED <<jobs, enabled, runOnStartup, catalog, booted, isRunning, ticks, lastTick, run, task,
               stageVars>>

\* generateSummary settles: the text, or null when the call failed.
GenerateSummary(p, k) ==
  LET st == scoreTask[p]
      j == st.job[k]
  IN  /\ st.pc = "running"
      /\ k <= Len(st.job)
      /\ j.pc = "summarize"
      /\ \E summary \in {"text", NoText} :
           scoreTask' = [scoreTask EXCEPT ![p].job[k] =
                           [j EXCEPT !.pc = "update", !.summary = summary]]
      /\ calls' = calls \cup {[service |-> "summarization", id |-> RowOf(st.newJobs[k]),
                               score |-> j.score, by |-> "ingest"]}
      /\ UNCHANGED <<cols, config, world, rescore, rescores, history>>
      /\ UNCHANGED <<pipelineVars, stageVars>>

\* UPDATE jobs SET seniority, interview_style, score, score_breakdown,
\* summary [, remote_eligible] WHERE external_id = .. AND provider = ..
UpdateScore(p, k) ==
  LET st == scoreTask[p]
      j == st.job[k]
      hit == ConflictRows(st.newJobs[k])
  IN  /\ st.pc = "running"
      /\ k <= Len(st.job)
      /\ j.pc = "update"
      /\ \/ /\ Returns
            /\ cols' = [id \in RowIds |->
                          IF id \in hit
                          THEN [cols[id] EXCEPT
                                  !.seniority = j.metadata.seniority,
                                  !.interviewStyle = j.metadata.interview_style,
                                  !.score = j.score,
                                  !.scoreBreakdown = <<j.breakdown>>,
                                  !.summary = j.summary,
                                  !.remoteEligible =
                                     IF j.metadata.fromDefaults THEN @
                                     ELSE j.metadata.remote_eligible]
                          ELSE cols[id]]
            /\ history' = [id \in RowIds |->
                             IF id \in hit
                             THEN [by |-> "ingest", fromDefaults |-> j.metadata.fromDefaults,
                                   config |-> j.config]
                             ELSE history[id]]
            /\ scoreTask' = [scoreTask EXCEPT ![p] =
                               AfterJob([st EXCEPT !.job[k] = Done(j, "scored"),
                                                   !.scored = st.scored + 1])]
         \/ /\ Throws
            /\ scoreTask' = [scoreTask EXCEPT ![p] =
                               AfterJob([st EXCEPT !.job[k] =
                                           Done([j EXCEPT !.updateThrew = TRUE], "caught")])]
            /\ UNCHANGED <<cols, history>>
      /\ UNCHANGED <<config, world, rescore, rescores, calls>>
      /\ UNCHANGED <<jobs, enabled, runOnStartup, catalog, booted, isRunning, ticks, lastTick, run, task,
               stageVars>>

(* ------------------------- the /rescore command ----------------------- *)

NoRescore ==
  [ pc |-> "idle", withSummaries |-> FALSE, allJobs |-> <<>>, k |-> 0,
    score |-> 0, breakdown |-> NoBreakdown, summary |-> NoText, rescored |-> 0 ]

\* rescore.ts:37-42: the metadata rebuilt from the columns of a row.
StoredMetadata(row) ==
  [ seniority       |-> IF row.seniority = NoText THEN "unknown" ELSE row.seniority,
    remote_eligible |-> row.remoteEligible,
    interview_style |-> row.interviewStyle,
    role_type       |-> "software_engineer" ]

\* The for-loop of execute from the k-th selected row up to its next
\* await: the summarization call or the UPDATE.
RescoreLoop(rs, k) ==
  IF k > Len(rs.allJobs)
  THEN [NoRescore EXCEPT !.pc = "replied", !.rescored = rs.rescored,
                         !.withSummaries = rs.withSummaries]
  ELSE LET row == rs.allJobs[k]
           result == ScoreJob(StoredMetadata(row), row.location)
       IN  [rs EXCEPT !.k = k,
                      !.score = result.score,
                      !.breakdown = result.breakdown,
                      !.summary = NoText,
                      !.pc = IF /\ rs.withSummaries
                                /\ ShouldGenerateSummary(result.score)
                                /\ row.description
                             THEN "summarize" ELSE "update"]

\* execute: deferReply settles, loadScoringConfig(true) re-reads
\* scoring.yml, the SELECT is sent.
RescoreCommand ==
  /\ rescore.pc = "idle"
  /\ world.rescoring
  /\ rescores < MaxRescores
  /\ rescores' = rescores + 1
  /\ \E withSummaries \in BOOLEAN :
       rescore' = [NoRescore EXCEPT !.pc = "select", !.withSummaries = withSummaries]
  /\ \E cfg \in world.configs : config' = cfg
  /\ UNCHANGED <<cols, world, scoreTask, calls, history>>
  /\ UNCHANGED <<pipelineVars, stageVars>>

\* SELECT * FROM jobs WHERE is_stale = false
RescoreSelect ==
  /\ rescore.pc = "select"
  /\ \/ /\ Returns
        /\ LET ids == SelectSeq([id \in RowIds |-> id], LAMBDA id : ~jobs[id].isStale)
               allJobs == [n \in 1..Len(ids) |->
                             [ id |-> ids[n],
                               seniority |-> cols[ids[n]].seniority,
                               remoteEligible |-> cols[ids[n]].remoteEligible,
                               interviewStyle |-> cols[ids[n]].interviewStyle,
                               location |-> cols[ids[n]].location,
                               description |-> cols[ids[n]].description ]]
           IN  rescore' = RescoreLoop([rescore EXCEPT !.allJobs = allJobs], 1)
     \/ /\ Throws
        /\ rescore' = [NoRescore EXCEPT !.pc = "failed"]
  /\ UNCHANGED <<cols, config, world, scoreTask, rescores, calls, history>>
  /\ UNCHANGED <<jobs, enabled, runOnStartup, catalog, booted, isRunning, ticks, lastTick, run, task,
               stageVars>>

\* generateSummary of the re-score settles; a null leaves updateData
\* without a summary.
RescoreSummary ==
  /\ rescore.pc = "summarize"
  /\ \E summary \in {"text", NoText} :
       rescore' = [rescore EXCEPT !.pc = "update", !.summary = summary]
  /\ calls' = calls \cup {[service |-> "summarization", id |-> rescore.allJobs[rescore.k].id,
                           score |-> rescore.score, by |-> "rescore"]}
  /\ UNCHANGED <<cols, config, world, scoreTask, rescores, history>>
  /\ UNCHANGED <<pipelineVars, stageVars>>

\* UPDATE jobs SET score, score_breakdown [, summary] WHERE id = ..
RescoreUpdate ==
  LET id == rescore.allJobs[rescore.k].id
  IN  /\ rescore.pc = "update"
      /\ \/ /\ Returns
            /\ cols' = [cols EXCEPT ![id].score = rescore.score,
                                    ![id].scoreBreakdown = <<rescore.breakdown>>,
                                    ![id].summary =
                                       IF rescore.summary = NoText THEN @ ELSE rescore.summary]
            /\ history' = [history EXCEPT ![id].by =
                             IF rescore.withSummaries THEN "rescoreWithSummaries" ELSE "rescore"]
            /\ rescore' = RescoreLoop([rescore EXCEPT !.rescored = rescore.rescored + 1],
                                      rescore.k + 1)
         \/ /\ Throws
            /\ rescore' = [NoRescore EXCEPT !.pc = "failed"]
            /\ UNCHANGED <<cols, history>>
      /\ UNCHANGED <<config, world, scoreTask, rescores, calls>>
      /\ UNCHANGED <<jobs, enabled, runOnStartup, catalog, booted, isRunning, ticks, lastTick, run, task,
               stageVars>>

\* editReply is sent, or the rejection of execute is reported.
RescoreDone ==
  /\ rescore.pc \in {"replied", "failed"}
  /\ rescore' = NoRescore
  /\ UNCHANGED <<cols, config, world, scoreTask, rescores, calls, history>>
  /\ UNCHANGED <<pipelineVars, stageVars>>

(* ----------------------- scoring: specification ----------------------- *)

Posting(e, p, key, description, location, remoteEligible) ==
  [ externalId |-> e, provider |-> p, canonicalKey |-> key,
    description |-> description, location |-> location,
    remoteEligible |-> remoteEligible ]

\* A burst: greenhouse has inserted six postings and ashby one, all with
\* a description, none a duplicate.
BurstGreenhouse ==
  [ n \in 1..6 |->
      Posting(<<"e1", "e2", "e3", "e4", "e5", "e6">>[n], "greenhouse",
              <<"k1", "k2", "k3", "k4", "k5", "k6">>[n], TRUE, "other", FALSE) ]

BurstAshby == <<Posting("e7", "ashby", "k7", TRUE, "other", FALSE)>>

\* A mixed tier: greenhouse has inserted a posting with a description and
\* one without, ashby the copy of the first one, flagged as its duplicate.
MixedGreenhouse ==
  << Posting("e1", "greenhouse", "k1", TRUE, "us", TRUE),
     Posting("e2", "greenhouse", "k2", FALSE, NoText, FALSE) >>

MixedAshby == <<Posting("e1", "ashby", "k1", TRUE, "us", TRUE)>>

\* The positions of a list scoreNewJobs is called with.
JobSlots == 1..Len(BurstGreenhouse)

NewJobsOf(greenhouse, ashby) ==
  [ p \in Providers |->
      IF p = "greenhouse" THEN greenhouse ELSE IF p = "ashby" THEN ashby ELSE <<>> ]

\* The states in which the scoring stage of a tier starts: the rows
\* insertNewJobs has stored, the lists it has returned, what the
\* extraction service answers, the scoring.yml contents a reload may
\* find, and whether /rescore is used.
ScoringEnvs ==
  { [ postings |-> BurstGreenhouse \o BurstAshby,
      duplicateOf |-> [n \in 1..7 |-> NULL],
      newJobs |-> NewJobsOf(BurstGreenhouse, BurstAshby),
      extractions |-> {DEFAULTS},
      configs |-> {DocumentedConfig},
      rescoring |-> FALSE ],
    [ postings |-> <<MixedGreenhouse[1], MixedAshby[1], MixedGreenhouse[2]>>,
      duplicateOf |-> <<NULL, 1, NULL>>,
      newJobs |-> NewJobsOf(MixedGreenhouse, MixedAshby),
      extractions |-> Metadatas,
      configs |-> {DocumentedConfig, DoubledBackendConfig},
      rescoring |-> TRUE ] }

\* Under Spec the scoring columns are left out: scoreNewJobs is one step
\* that only counts.
ScoringNotModelled ==
  /\ cols = <<>>
  /\ config = DocumentedConfig
  /\ world = [extractions |-> {}, configs |-> {DocumentedConfig}, rescoring |-> FALSE]
  /\ scoreTask = [p \in Providers |-> NoScoring]
  /\ rescore = NoRescore
  /\ rescores = 0
  /\ calls = {}
  /\ history = <<>>

(* ------------------ the filter and normalizer stage ------------------- *)

\* runProviderIngestion between the return of fetchJobs and the call of
\* insertNewJobs: the role filter, the location filter, the normalizer.
NoIngest ==
  [ pc               |-> "none",
    providerName     |-> "none",
    rawJobs          |-> <<>>,
    roleFiltered     |-> <<>>,
    locationFiltered |-> <<>>,
    normalized       |-> <<>> ]

\* const roleFiltered = rawJobs.filter(job => passesRoleFilter(job, config.filters))
RoleFilter ==
  /\ ingest.pc = "role"
  /\ ingest' = [ingest EXCEPT
                  !.pc = "location",
                  !.roleFiltered =
                     SelectSeq(ingest.rawJobs,
                               LAMBDA job : PassesRoleFilter(job, providersConfig.filters))]
  /\ UNCHANGED <<providersConfig, pipelineVars, scoringVars, adapterVars>>

\* const locationFiltered = roleFiltered.filter(job => passesLocationFilter(..))
LocationFilter ==
  /\ ingest.pc = "location"
  /\ ingest' = [ingest EXCEPT
                  !.pc = "normalize",
                  !.locationFiltered =
                     SelectSeq(ingest.roleFiltered,
                               LAMBDA job : PassesLocationFilter(job, providersConfig.filters))]
  /\ UNCHANGED <<providersConfig, pipelineVars, scoringVars, adapterVars>>

\* const normalized = normalizeJobs(locationFiltered, provider.name, ..)
Normalize ==
  /\ ingest.pc = "normalize"
  /\ ingest' = [ingest EXCEPT
                  !.pc = "insert",
                  !.normalized = NormalizeJobs(ingest.locationFiltered, ingest.providerName)]
  /\ UNCHANGED <<providersConfig, pipelineVars, scoringVars, adapterVars>>

\* The filter and normalizer stage is part of the step FetchJobs of the
\* pipeline and is not a step of its own there.
NormalizerNotModelled ==
  /\ ingest = NoIngest
  /\ providersConfig = [filters |-> ConfiguredFilters]

(* -------------------------- provider adapters ------------------------- *)

\* brightdata.ts
BOARD_CONCURRENCY == 3

POLL_INITIAL_INTERVAL_MS == 15000

POLL_MAX_INTERVAL_MS == 60000

POLL_TIMEOUT_MS == 5 * 60000

\* coresignal.ts (kept in src/src/ingestion/filters.ts)
COLLECT_CONCURRENCY == 10

DEFAULT_MAX_COLLECT == 50

\* A board of providers.yml without maxCollect (the schema wants a
\* positive integer when it is there).
NoMaxCollect == 0

Min(a, b) == IF a < b THEN a ELSE b

\* The sources DATASET_IDS has a dataset for.
DATASET_IDS == {"linkedin", "indeed", "glassdoor"}

\* One sub-board of the provider before its fetch has begun.  category is
\* what providers.yml says; triggers counts the trigger requests sent for
\* the sub-board; elapsed is Date.now() - startTime of pollUntilReady and
\* interval the wait of its loop; value is what the fetch of the
\* sub-board resolves with and error why it rejects.
QueuedBoard(category) ==
  [ pc       |-> "queued",
    category |-> category,
    triggers |-> 0,
    elapsed  |-> 0,
    interval |-> 0,
    value    |-> <<>>,
    error    |-> NoError,
    \* Coresignal: board.maxCollect, ids.length and afterCursor of
    \* searchJobIds, the collect requests sent and in flight, and whether
    \* one of them has delivered a record that is active and not deleted
    maxCollect  |-> NoMaxCollect,
    ids         |-> 0,
    afterCursor |-> FALSE,
    collects    |-> 0,
    inFlight    |-> 0,
    collected   |-> FALSE,
    \* SerpApi: maxPages, page and nextPageToken of fetchSearch, and the
    \* search requests sent for the sub-board
    maxPages      |-> 0,
    page          |-> 0,
    nextPageToken |-> FALSE,
    requests      |-> 0 ]

BoardIds == 1..Len(board)

\* The postings the source of sub-board i holds.
PostingsOf(i) == <<[board |-> i]>>

BoardSettled(b) == b.pc \in {"fulfilled", "rejected"}

\* A Bright Data sub-board between the start of its trigger and the end
\* of its download.
BoardActive(b) == b.pc \in {"trigger", "delay", "progress", "download"}

\* pollUntilReady has returned or thrown: its locals are gone.
PollEnded(b) == [b EXCEPT !.elapsed = 0, !.interval = 0]

Resolved(b, value) == [PollEnded(b) EXCEPT !.pc = "fulfilled", !.value = value]

Rejected(b, error) == [PollEnded(b) EXCEPT !.pc = "rejected", !.error = error]

\* Mutant: a sub-board whose trigger failed is put back in the queue.
TriggerFailedRetried(b) == [b EXCEPT !.pc = "queued"]

\* triggerSnapshot throws on a response that is not ok, and nothing
\* between it and the allSettled of fetchJobs catches.
TriggerFailed(b) == Rejected(b, "trigger")

\* fetchBoard up to its first await: a source without a dataset is
\* skipped with no postings, any other has its trigger request sent.
StartBoard(b) ==
  IF b.category \notin DATASET_IDS
  THEN Resolved(b, <<>>)
  ELSE [b EXCEPT !.pc = "trigger", !.triggers = b.triggers + 1]

\* Mutant: a limiter that starts every queued sub-board at once.
BoardSlotsFreeAlways(bs) == TRUE

\* pLimit(BOARD_CONCURRENCY): a queued function is started while fewer
\* than BOARD_CONCURRENCY are running.
BoardSlotsFree(bs) ==
  Cardinality({i \in 1..Len(bs) : BoardActive(bs[i])}) < BOARD_CONCURRENCY

\* The limiter starts queued sub-boards, first come first served, while
\* it has a free slot.
RECURSIVE PumpBoards(_)
PumpBoards(bs) ==
  LET queued == {i \in 1..Len(bs) : bs[i].pc = "queued"}
  IN  IF queued = {} \/ ~BoardSlotsFree(bs) THEN bs
      ELSE PumpBoards([bs EXCEPT ![Least(queued)] = StartBoard(bs[Least(queued)])])

\* for (const result of results) if fulfilled allJobs.push(...result.value)
RECURSIVE AllJobs(_, _)
AllJobs(bs, k) ==
  IF k > Len(bs) THEN <<>>
  ELSE (IF bs[k].pc = "fulfilled" THEN bs[k].value ELSE <<>>) \o AllJobs(bs, k + 1)

NoFetchCall == [pc |-> "idle", value |-> <<>>]

\* Mutant: fetchJobs with Promise.all in place of Promise.allSettled.
FetchJobsOutcomeAll(bs) ==
  IF \E i \in 1..Len(bs) : bs[i].pc = "rejected"
  THEN [pc |-> "rejected", value |-> <<>>]
  ELSE IF \A i \in 1..Len(bs) : BoardSettled(bs[i])
       THEN [pc |-> "fulfilled", value |-> AllJobs(bs, 1)]
       ELSE [pc |-> "pending", value |-> <<>>]

\* fetchJobs after a step of its sub-boards: it returns allJobs in the
\* turn in which the last sub-board settles (Promise.allSettled, or the
\* end of the loop of RemotiveProvider).
FetchJobsOutcome(bs) ==
  IF \A i \in 1..Len(bs) : BoardSettled(bs[i])
  THEN [pc |-> "fulfilled", value |-> AllJobs(bs, 1)]
  ELSE [pc |-> "pending", value |-> <<>>]

\* A step of fetchJobs that may send SerpApi requests.
SetBoardsOnly(bs) ==
  /\ board' = bs
  /\ fetchCall' = FetchJobsOutcome(bs)
  /\ UNCHANGED <<adapter, pipelineVars, scoringVars, normalizerVars>>

SetBoards(bs) ==
  /\ SetBoardsOnly(bs)
  /\ UNCHANGED serpapi

\* orchestrator.ts getSerpApiDepth: 3 pages before 9, 2 before 15, else 1.
GetSerpApiDepth(hour) == IF hour < 9 THEN 3 ELSE IF hour < 15 THEN 2 ELSE 1

\* The hours of the day at which runs are looked at.
Hours == {8, 12, 20}

\* provider.fetchJobs() is called: up to its first await.  The SerpApi
\* provider was built by buildProviders with the depth of the hour.
CallFetchJobs ==
  /\ fetchCall.pc = "idle"
  /\ serpapi.logged < MaxSerpApiRuns
  /\ SetBoardsOnly(
       IF adapter.name = "brightdata" THEN PumpBoards(board)
       ELSE IF adapter.name = "remotive"
            THEN [board EXCEPT ![1].pc = "category"]
            ELSE [i \in BoardIds |->
                    [board[i] EXCEPT !.pc =
                       IF adapter.name = "coresignal" THEN "search"
                       ELSE IF adapter.name = "serpapi" THEN "usage"
                       ELSE "fetch"]])
  /\ IF adapter.name = "serpapi"
     THEN \E hour \in Hours :
             serpapi' = [serpapi EXCEPT !.maxDepth = GetSerpApiDepth(hour)]
     ELSE UNCHANGED serpapi

\* The top of the loop of pollUntilReady, with elapsed read from the clock.
PollLoop(b) ==
  IF b.elapsed >= POLL_TIMEOUT_MS
  THEN Rejected(b, "timeout")
  ELSE [b EXCEPT !.pc = "delay"]

\* The response to the trigger request arrives.
TriggerSnapshot(i) ==
  /\ adapter.name = "brightdata"
  /\ i \in BoardIds
  /\ board[i].pc = "trigger"
  /\ \/ SetBoards(PumpBoards(
          [board EXCEPT ![i] = PollLoop([board[i] EXCEPT
                                           !.elapsed = 0,
                                           !.interval = POLL_INITIAL_INTERVAL_MS])]))
     \/ SetBoards(PumpBoards([board EXCEPT ![i] = TriggerFailed(board[i])]))

\* await this.delay(interval) ends and the progress request is sent.  The
\* clock of the model moves by the waits only: requests take no time.
PollDelay(i) ==
  /\ adapter.name = "brightdata"
  /\ i \in BoardIds
  /\ board[i].pc = "delay"
  /\ SetBoards([board EXCEPT ![i].pc = "progress",
                             ![i].elapsed = board[i].elapsed + board[i].interval])

\* The response to the progress request arrives.
PollProgress(i) ==
  /\ adapter.name = "brightdata"
  /\ i \in BoardIds
  /\ board[i].pc = "progress"
  /\ \E status \in {"running", "ready", "failed", "http error"} :
       LET b == board[i]
           next == b.interval + POLL_INITIAL_INTERVAL_MS
           after ==
             CASE status = "http error" -> Rejected(b, "progress")
               [] status = "ready"      -> [PollEnded(b) EXCEPT !.pc = "download"]
               [] status = "failed"     -> Rejected(b, "failed")
               [] status = "running"    ->
                    PollLoop([b EXCEPT !.interval =
                                IF next < POLL_MAX_INTERVAL_MS THEN next
                                ELSE POLL_MAX_INTERVAL_MS])
       IN  SetBoards(PumpBoards([board EXCEPT ![i] = after]))

\* The response to the download request arrives: the records, something
\* that is not an array, or an error status.
DownloadSnapshot(i) ==
  /\ adapter.name = "brightdata"
  /\ i \in BoardIds
  /\ board[i].pc = "download"
  /\ \E after \in {Resolved(board[i], PostingsOf(i)), Resolved(board[i], <<>>),
                   Rejected(board[i], "download")} :
       SetBoards(PumpBoards([board EXCEPT ![i] = after]))

\* RemotiveProvider.fetchJobs: the rate-limit delay before the categories
\* after the first one ends, and the category is requested.
RateLimitDelay(i) ==
  /\ adapter.name = "remotive"
  /\ i \in BoardIds
  /\ board[i].pc = "ratelimit"
  /\ SetBoards([board EXCEPT ![i].pc = "category"])

\* fetchCategory settles: its postings are pushed, or its error is caught
\* and logged; the loop goes on to the delay of the next category.
FetchCategory(i) ==
  /\ adapter.name = "remotive"
  /\ i \in BoardIds
  /\ board[i].pc = "category"
  /\ \E after \in {Resolved(board[i], PostingsOf(i)), Rejected(board[i], "category")} :
       SetBoards([j \in BoardIds |->
                    IF j = i THEN after
                    ELSE IF j = i + 1 THEN [board[j] EXCEPT !.pc = "ratelimit"]
                    ELSE board[j]])

\* const maxCollect = board.maxCollect ?? DEFAULT_MAX_COLLECT
MaxCollectOf(b) ==
  IF b.maxCollect = NoMaxCollect THEN DEFAULT_MAX_COLLECT ELSE b.maxCollect

\* Mutant: a search that keeps the whole page.
TakeIdsWholePage(ids, pageIds, maxCollect) == ids + pageIds

\* ids.push(...pageIds.slice(0, maxCollect - ids.length)), as lengths
TakeIds(ids, pageIds, maxCollect) == ids + Min(pageIds, maxCollect - ids)

\* The lengths of the pages the search service answers with.
PageSizes == {0, 4, 25, 60}

\* searchJobIds has returned: fetchBoard returns [] when there is no id,
\* else collectJobs makes its limiter, pLimit(COLLECT_CONCURRENCY), and
\* hands it one function per id; the limiter starts the first
\* COLLECT_CONCURRENCY of them.
StartCollect(b) ==
  IF b.ids = 0 THEN Resolved(b, <<>>)
  ELSE [b EXCEPT !.pc = "collect",
                 !.collects = Min(b.ids, COLLECT_CONCURRENCY),
                 !.inFlight = Min(b.ids, COLLECT_CONCURRENCY)]

\* CoresignalProvider.searchJobIds: the response to a search request
\* arrives: an error status, or a page of ids with or without the header
\* x-next-page-after.
SearchJobIds(i) ==
  /\ adapter.name = "coresignal"
  /\ i \in BoardIds
  /\ board[i].pc = "search"
  /\ \/ SetBoards([board EXCEPT ![i] = Rejected(board[i], "search")])
     \/ \E pageIds \in PageSizes, nextCursor \in BOOLEAN :
          LET b == board[i]
              pushed == [b EXCEPT !.ids = TakeIds(b.ids, pageIds, MaxCollectOf(b))]
              after ==
                IF pageIds = 0 THEN StartCollect(b)
                ELSE IF ~nextCursor \/ pushed.ids >= MaxCollectOf(b)
                     THEN StartCollect(pushed)
                     ELSE [pushed EXCEPT !.afterCursor = TRUE]
          IN  SetBoards([board EXCEPT ![i] = after])

\* CoresignalProvider.collectJobs: one collect request settles, with a
\* record to keep or without one (status not ok, rejected, inactive or
\* deleted record); the limiter starts the next queued one; after the
\* last one fetchBoard returns what was collected.
CollectJobs(i) ==
  /\ adapter.name = "coresignal"
  /\ i \in BoardIds
  /\ board[i].pc = "collect"
  /\ \E record \in BOOLEAN :
       LET b == board[i]
           more == b.collects < b.ids
           after == [b EXCEPT !.collected = b.collected \/ record,
                              !.collects = IF more THEN b.collects + 1 ELSE b.collects,
                              !.inFlight = IF more THEN b.inFlight ELSE b.inFlight - 1]
       IN  SetBoards([board EXCEPT ![i] =
                        IF after.inFlight = 0
                        THEN Resolved(after, IF after.collected THEN PostingsOf(i) ELSE <<>>)
                        ELSE after])

\* The locals of SerpApiProvider.fetchJobs before the call, with the rows
\* of ingestion_logs of provider serpapi and the search requests sent to
\* SerpApi since the start of the month.
NoSerpApi ==
  [ logged         |-> 0,
    requests       |-> 0,
    maxDepth       |-> 0,
    check          |-> "none",
    used           |-> 0,
    effectiveDepth |-> 0 ]

\* Mutant: a budget check that never changes the depth.
EffectiveDepthUnguarded(maxDepth, check, used, monthlyBudget) == maxDepth

\* The budget safety valve of fetchJobs.
EffectiveDepth(maxDepth, check, used, monthlyBudget) ==
  IF check = "failed" \/ used >= monthlyBudget THEN 1 ELSE maxDepth

\* fetchSearch up to its first await: the request for page 0 is sent
\* unless maxPages allows no page.
StartSearch(b, effectiveDepth) ==
  LET maxPages == Min(effectiveDepth, adapter.maxPages)
  IN  IF 0 < maxPages
      THEN [b EXCEPT !.pc = "page", !.maxPages = maxPages, !.page = 0, !.requests = 1]
      ELSE Resolved([b EXCEPT !.maxPages = maxPages], <<>>)

\* The search requests sent for the sub-boards.
RECURSIVE SearchRequests(_, _)
SearchRequests(bs, k) ==
  IF k > Len(bs) THEN 0 ELSE bs[k].requests + SearchRequests(bs, k + 1)

\* A step of the searches: the requests it sends are added to the month's.
SetSearches(bs) ==
  /\ SetBoardsOnly(bs)
  /\ serpapi' = [serpapi EXCEPT !.requests =
                   serpapi.requests + SearchRequests(bs, 1) - SearchRequests(board, 1)]

\* SerpApiProvider.fetchJobs: checkMonthlyUsage settles.  It returns the
\* number of rows of ingestion_logs of provider serpapi since the start
\* of the month, or throws; then the searches of all sub-boards start.
CheckMonthlyUsage ==
  /\ adapter.name = "serpapi"
  /\ \E i \in BoardIds : board[i].pc = "usage"
  /\ \E check \in {"returned", "failed"} :
       LET used == IF check = "returned" THEN serpapi.logged ELSE 0
           effectiveDepth ==
             EffectiveDepth(serpapi.maxDepth, check, used, adapter.monthlyBudget)
           bs == [i \in BoardIds |-> StartSearch(board[i], effectiveDepth)]
       IN  /\ SetBoardsOnly(bs)
           /\ serpapi' = [serpapi EXCEPT
                            !.check = check,
                            !.used = used,
                            !.effectiveDepth = effectiveDepth,
                            !.requests = serpapi.requests + SearchRequests(bs, 1)]

\* The end of one turn of the loop of fetchSearch: without a next page
\* token, or after the last page, the search returns; else the request
\* for the next page is sent.
NextPage(b) ==
  IF ~b.nextPageToken \/ ~(b.page + 1 < b.maxPages)
  THEN Resolved(b, b.value)
  ELSE [b EXCEPT !.pc = "page", !.page = b.page + 1, !.requests = b.requests + 1]

\* fetchSearch: the response to a page request arrives.  An error
\* (network, HTTP status, error in the body) ends the search, with what
\* it has on a deeper page, with the error on page 0.  A page of results
\* is kept; after page 0 the newness gate asks checkExisting when more
\* pages are allowed and the page had results.
FetchPage(i) ==
  /\ adapter.name = "serpapi"
  /\ i \in BoardIds
  /\ board[i].pc = "page"
  /\ LET b == board[i]
     IN  \/ SetSearches([board EXCEPT ![i] =
                           IF b.page > 0 THEN Resolved(b, b.value)
                           ELSE Rejected(b, "fetch")])
         \/ \E results, token \in BOOLEAN :
              LET kept == [b EXCEPT !.value = IF results THEN PostingsOf(i) ELSE b.value,
                                    !.nextPageToken = token]
              IN  SetSearches([board EXCEPT ![i] =
                                 IF b.page = 0 /\ b.maxPages > 1 /\ results
                                 THEN [kept EXCEPT !.pc = "newness"]
                                 ELSE NextPage(kept)])

\* fetchSearch: checkExisting settles: every result of page 1 is stored
\* already and the search returns, or some are new, or the check threw,
\* and the search goes on.
NewnessGate(i) ==
  /\ adapter.name = "serpapi"
  /\ i \in BoardIds
  /\ board[i].pc = "newness"
  /\ \E allSeen \in BOOLEAN :
       SetSearches([board EXCEPT ![i] =
                      IF allSeen THEN Resolved(board[i], board[i].value)
                      ELSE NextPage(board[i])])

\* runProviderIngestion after fetchJobs has returned: filters, inserts
\* and scoring send no request to SerpApi, and logIngestion adds one row
\* to ingestion_logs, in the try block or in the catch block.  The next
\* run builds the provider anew.
LogSerpApiIngestion ==
  /\ adapter.name = "serpapi"
  /\ fetchCall.pc = "fulfilled"
  /\ board' = [i \in BoardIds |-> QueuedBoard(board[i].category)]
  /\ fetchCall' = NoFetchCall
  /\ serpapi' = [NoSerpApi EXCEPT !.logged = serpapi.logged + 1,
                                  !.requests = serpapi.requests]
  /\ UNCHANGED <<adapter, pipelineVars, scoringVars, normalizerVars>>

\* fetchBoard of GreenhouseProvider and AshbyProvider and fetchSearch of
\* AdzunaProvider settle: the postings of the sub-board, none, or an
\* error.  The pages of a search of Adzuna are one step.
FetchBoard(i) ==
  /\ adapter.name \in {"greenhouse", "ashby", "adzuna"}
  /\ i \in BoardIds
  /\ board[i].pc = "fetch"
  /\ \E after \in {Resolved(board[i], PostingsOf(i)), Resolved(board[i], <<>>),
                   Rejected(board[i], "fetch")} :
       SetBoards([board EXCEPT ![i] = after])

\* The providers whose fetchJobs is looked at, with the categories of
\* their sub-boards in providers.yml.
AdapterEnvs ==
  { [name |-> "brightdata",
     boards |-> <<"linkedin", "monster", "indeed", "glassdoor", "linkedin">>],
    [name |-> "remotive", boards |-> <<"software-dev", "devops", "data">>],
    [name |-> "coresignal", boards |-> <<"backend", "platform">>,
     maxCollect |-> <<6, NoMaxCollect>>],
    [name |-> "greenhouse", boards |-> <<"stripe", "shopify">>],
    [name |-> "ashby", boards |-> <<"ramp", "notion">>],
    [name |-> "adzuna", boards |-> <<"ca", "us">>],
    [name |-> "serpapi", boards |-> <<"toronto", "canada">>,
     maxPages |-> 3, monthlyBudget |-> 2] }

\* The positions a sub-board can have in the list of a provider.
SubBoards == 1..Greatest({Len(e.boards) : e \in AdapterEnvs})

NoAdapter == [name |-> "none", boards |-> <<>>]

\* fetchJobs is a single step (FetchJobs) of the pipeline.
AdapterNotModelled ==
  /\ adapter = NoAdapter
  /\ board = <<>>
  /\ fetchCall = NoFetchCall
  /\ serpapi = NoSerpApi

\* A cron run has reached the tier of greenhouse and ashby, and both
\* tasks have come back from insertNewJobs.
InitScoring ==
  /\ \E e \in ScoringEnvs :
       /\ jobs = [n \in 1..Len(e.postings) |->
                    [NewRow(e.postings[n]) EXCEPT !.likelyDuplicateOfId = e.duplicateOf[n]]]
       /\ cols = [n \in 1..Len(e.postings) |-> NewCols(e.postings[n])]
       /\ history = [n \in 1..Len(e.postings) |-> NeverScored]
       /\ scoreTask = [p \in Providers |-> [NoScoring EXCEPT !.newJobs = e.newJobs[p]]]
       /\ world = [extractions |-> e.extractions, configs |-> e.configs,
                   rescoring |-> e.rescoring]
       /\ task = [r \in Runs |-> [p \in Providers |->
                    IF r = "cron" /\ Len(e.newJobs[p]) > 0
                    THEN [Started(p) EXCEPT !.pc = "score"]
                    ELSE NotStarted(p)]]
       /\ config \in e.configs
  /\ rescore = NoRescore
  /\ rescores = 0
  /\ calls = {}
  /\ enabled = {"greenhouse", "ashby"}
  /\ runOnStartup = FALSE
  /\ catalog = {}
  /\ booted = TRUE
  /\ isRunning = TRUE
  /\ ticks = 1
  /\ lastTick = "ran"
  /\ faults = 0
  /\ run = [r \in Runs |-> IF r = "cron" THEN [NoRun EXCEPT !.pc = "tiers", !.tier = 3]
                            ELSE NoRun]
  /\ NormalizerNotModelled
  /\ AdapterNotModelled

NextScoring ==
  \/ \E p \in Providers : ScoreNewJobsCall(p)
  \/ \E p \in Providers, k \in JobSlots : AnalyzeJob(p, k)
  \/ \E p \in Providers, k \in JobSlots : GenerateSummary(p, k)
  \/ \E p \in Providers, k \in JobSlots : UpdateScore(p, k)
  \/ RescoreCommand
  \/ RescoreSelect
  \/ RescoreSummary
  \/ RescoreUpdate
  \/ RescoreDone

SpecScoring == InitScoring /\ [][NextScoring]_vars

(* --------------------------- specification ---------------------------- *)

Init ==
  /\ \E e \in Envs : /\ enabled = e.providers
                      /\ runOnStartup = e.runOnStartup
                      /\ catalog = e.catalog
                      /\ jobs = e.stored
  /\ booted = FALSE
  /\ isRunning = FALSE
  /\ ticks = 0
  /\ lastTick = "none"
  /\ faults = 0
  /\ run = [r \in Runs |-> NoRun]
  /\ task = [r \in Runs |-> [p \in Providers |-> NotStarted(p)]]
  /\ ScoringNotModelled
  /\ NormalizerNotModelled
  /\ AdapterNotModelled

Next ==
  \/ Main
  \/ CronTick
  \/ \E r \in Runs : TierDone(r)
  \/ \E r \in Runs : MarkStaleJobs(r)
  \/ \E r \in Runs : Finish(r)
  \/ RetentionWindowPasses
  \/ \E r \in Runs, p \in Providers : FetchJobs(r, p)
  \/ \E r \in Runs, p \in Providers : InsertJob(r, p)
  \/ \E r \in Runs, p \in Providers : LookupExisting(r, p)
  \/ \E r \in Runs, p \in Providers : LinkDuplicate(r, p)
  \/ \E r \in Runs, p \in Providers : RefreshJob(r, p)
  \/ \E r \in Runs, p \in Providers : ScoreNewJobs(r, p)
  \/ \E r \in Runs, p \in Providers : LogIngestion(r, p)
  \/ \E r \in Runs, p \in Providers : CatchLogIngestion(r, p)

Spec == Init /\ [][Next]_vars

(* ---------------- specification of the normalizer stage --------------- *)

\* A description longer than the prefix the fingerprint reads, ending in
\* the given text.
LongDescription(ending) == [i \in 1..FingerprintPrefix |-> "x"] \o ending

Titles == {<<"U", "I", " ", "E", "n", "g", "i", "n", "e", "e", "r">>, <<"S", "r", " ", "E", "n", "g", "i", "n", "e", "e", "r">>, <<"S", "W", "E">>, <<"P", "M">>}

Companies == {<<"A", "c", "m", "e", " ", "I", "n", "c", ".">>, <<"a", "c", "m", "e">>}

Locations == {Undefined, <<"T", "o", "r", "o", "n", "t", "o", ",", " ", "O", "N">>, <<"O", "t", "t", "a", "w", "a", ",", " ", "C", "a", "n", "a", "d", "a">>, <<"R", "e", "m", "o", "t", "e">>}

Descriptions ==
  { Undefined, EmptyString, <<"B", "u", "i", "l", "d", " ", "A", "P", "I", "s">>, <<"b", "u", "i", "l", "d", " ", " ", "a", "p", "i", "s", " ">>, <<"R", "e", "m", "o", "t", "e", ",", " ", "h", "y", "b", "r", "i", "d">>, <<"R", "e", "m", "o", "t", "e", " ", "w", "o", "r", "k", ".", "<", "b", "r", ">", "T", "o", "r", "o", "n", "t", "o", " ", "o", "f", "f", "i", "c", "e">>,
    LongDescription(<<" ", "a">>), LongDescription(<<" ", "b">>) }

\* The filter lists loadProvidersConfig may return: the documented ones,
\* lists written with capitals, and lists that leave every posting out.
FilterConfigs ==
  { ConfiguredFilters,
    [ exclude_titles    |-> <<>>,
      include_titles    |-> << <<"E", "n", "g", "i", "n", "e", "e", "r">> >>,
      location_keywords |-> << <<"O", "t", "t", "a", "w", "a">> >>,
      remote_indicators |-> << <<"R", "e", "m", "o", "t", "e">> >>,
      onsite_indicators |-> << <<"H", "y", "b", "r", "i", "d">> >> ],
    [ exclude_titles    |-> << <<"e", "n", "g", "i", "n", "e", "e", "r">> >>,
      include_titles    |-> << <<"e", "n", "g", "i", "n", "e", "e", "r">>, <<"p", "m">> >>,
      location_keywords |-> <<>>,
      remote_indicators |-> <<>>,
      onsite_indicators |-> <<>> ] }

\* The state of the pipeline while the stage is looked at on its own.
PipelineNotModelled ==
  /\ jobs = <<>>
  /\ enabled = {}
  /\ runOnStartup = FALSE
  /\ catalog = {}
  /\ booted = FALSE
  /\ isRunning = FALSE
  /\ ticks = 0
  /\ lastTick = "none"
  /\ faults = 0
  /\ run = [r \in Runs |-> NoRun]
  /\ task = [r \in Runs |-> [p \in Providers |-> NotStarted(p)]]

\* The descriptions of the second posting of a batch: none, a short one
\* and a long one.
SecondDescriptions ==
  {Undefined, <<"B", "u", "i", "l", "d", " ", "A", "P", "I", "s">>, LongDescription(<<" ", "b">>)}

\* fetchJobs of greenhouse has returned two postings of one role at one
\* location: the first of either company with any description, the
\* second of Acme Inc. with no, a short or a long description.
InitNormalizer ==
  /\ \E title \in Titles, location \in Locations, company1 \in Companies,
        description1 \in Descriptions, description2 \in SecondDescriptions :
       ingest = [NoIngest EXCEPT
                   !.pc = "role",
                   !.providerName = "greenhouse",
                   !.rawJobs =
                      << [externalId |-> "e1", title |-> title, company |-> company1,
                          location |-> location, description |-> description1],
                         [externalId |-> "e2", title |-> title,
                          company |-> <<"A", "c", "m", "e", " ", "I", "n", "c", ".">>,
                          location |-> location, description |-> description2] >>]
  /\ \E filters \in FilterConfigs : providersConfig = [filters |-> filters]
  /\ PipelineNotModelled
  /\ ScoringNotModelled
  /\ AdapterNotModelled

NextNormalizer ==
  \/ RoleFilter
  \/ LocationFilter
  \/ Normalize

SpecNormalizer == InitNormalizer /\ [][NextNormalizer]_vars

(* ------------------ specification of the adapters --------------------- *)

InitAdapter ==
  /\ \E e \in AdapterEnvs :
       /\ adapter = e
       /\ board = [i \in 1..Len(e.boards) |->
                     [QueuedBoard(e.boards[i]) EXCEPT !.maxCollect =
                        IF e.name = "coresignal" THEN e.maxCollect[i] ELSE NoMaxCollect]]
  /\ fetchCall = NoFetchCall
  /\ serpapi = NoSerpApi
  /\ PipelineNotModelled
  /\ ScoringNotModelled
  /\ NormalizerNotModelled

NextAdapter ==
  \/ CallFetchJobs
  \/ \E i \in SubBoards : TriggerSnapshot(i)
  \/ \E i \in SubBoards : PollDelay(i)
  \/ \E i \in SubBoards : PollProgress(i)
  \/ \E i \in SubBoards : DownloadSnapshot(i)
  \/ \E i \in SubBoards : RateLimitDelay(i)
  \/ \E i \in SubBoards : FetchCategory(i)
  \/ \E i \in SubBoards : SearchJobIds(i)
  \/ \E i \in SubBoards : CollectJobs(i)
  \/ CheckMonthlyUsage
  \/ \E i \in SubBoards : FetchPage(i)
  \/ \E i \in SubBoards : NewnessGate(i)
  \/ LogSerpApiIngestion
  \/ \E i \in SubBoards : FetchBoard(i)

SpecAdapter == InitAdapter /\ [][NextAdapter]_vars

(* ------------------------- vocabulary of the claims ------------------- *)

\* No runIngestion call is in progress or waiting for its caller.
Quiescent == \A r \in Runs : run[r].pc = "idle"

\* The rows stored under a canonical key.
RowsOfKey(key) == {id \in RowIds : jobs[id].canonicalKey = key}

\* The rows that tasks of run r created and pushed to their inserted list.
RunInserted(r) ==
  {id \in RowIds :
     \E p \in Providers : \E k \in 1..Len(task[r][p].inserted) :
        /\ task[r][p].inserted[k].externalId = jobs[id].externalId
        /\ task[r][p].inserted[k].provider = jobs[id].provider}

RowTier(id) == TierOf(jobs[id].provider)

\* Some step of run r can be taken.
RunStep(r) ==
  \/ TierDone(r)
  \/ MarkStaleJobs(r)
  \/ Finish(r)
  \/ \E p \in Providers :
       \/ FetchJobs(r, p)
       \/ InsertJob(r, p)
       \/ LookupExisting(r, p)
       \/ LinkDuplicate(r, p)
       \/ RefreshJob(r, p)
       \/ ScoreNewJobs(r, p)
       \/ LogIngestion(r, p)
       \/ CatchLogIngestion(r, p)

ZeroCounts(res) ==
  /\ res.fetched = 0
  /\ res.afterRoleFilter = 0
  /\ res.afterLocationFilter = 0
  /\ res.inserted = 0
  /\ res.duplicates = 0
  /\ res.scored = 0

EntriesOf(r, p) == {k \in 1..Len(run[r].results) : run[r].results[k].provider = p}

(* -------------------------------- C1 ---------------------------------- *)

\* C1: the store never holds two rows with the same (externalId, provider)
\* pair, after any interleaving of runs, re-observations and concurrent
\* provider tasks.
C1_UniqueExternalProvider ==
  \A a, b \in RowIds :
     (jobs[a].externalId = jobs[b].externalId /\ jobs[a].provider = jobs[b].provider)
       => a = b

\* An INSERT has met a pair that is already stored, while the other run
\* is at work on the same table.
C1_Witness ==
  \E r \in Runs, p \in Providers :
     /\ task[r][p].pc = "refresh"
     /\ ConflictRows(task[r][p].batch[task[r][p].i]) # {}
     /\ \A q \in Runs : InProgress(q)

(* -------------------------------- C2 ---------------------------------- *)

\* C2, as claimed: among the rows of one canonicalKey at most one is a
\* primary (likelyDuplicateOfId NULL) and every other row of the key points
\* to that primary.  Stated for the states in which no run is in progress
\* and no I/O call has ever failed.
C2_Claim ==
  (Quiescent /\ faults = 0) =>
    \A key \in Keys :
       LET primaries == {id \in RowsOfKey(key) : jobs[id].likelyDuplicateOfId = NULL}
       IN  /\ Cardinality(primaries) <= 1
           /\ \A prim \in primaries : \A id \in RowsOfKey(key) \ {prim} :
                 jobs[id].likelyDuplicateOfId = prim

(* -------------------------------- C3 ---------------------------------- *)

\* C3, as claimed: duplicate links are flat, no row that is flagged as a
\* duplicate is the target of another row's link.  Stated for the states
\* in which no run is in progress and no I/O call has ever failed.
C3_Claim ==
  (Quiescent /\ faults = 0) =>
    \A id \in RowIds :
       jobs[id].likelyDuplicateOfId # NULL =>
         jobs[jobs[id].likelyDuplicateOfId].likelyDuplicateOfId = NULL

(* -------------------------------- C4 ---------------------------------- *)

C5_DedupEndToEnd ==
  \A r \in Runs : \A a, b \in RunInserted(r) :
     ( /\ jobs[a].canonicalKey = jobs[b].canonicalKey
       /\ RowsOfKey(jobs[a].canonicalKey) = {a, b}
       /\ RowTier(a) < RowTier(b) )
     => ( /\ jobs[b].likelyDuplicateOfId = a
          /\ jobs[a].likelyDuplicateOfId = NULL
          /\ a \in Listing
          /\ b \notin Listing )

\* A and B of one key are stored by one run, A by the earlier tier, with
\* no other row of the key.
C5_Witness ==
  \E r \in Runs : \E a, b \in RunInserted(r) :
     /\ jobs[a].canonicalKey = jobs[b].canonicalKey
     /\ RowsOfKey(jobs[a].canonicalKey) = {a, b}
     /\ RowTier(a) < RowTier(b)
     /\ b \notin Listing

(* -------------------------------- C6 ---------------------------------- *)

\* C6: tier barrier.  Within one run no provider of a later tier has
\* started before every started provider of every earlier tier has
\* settled, fulfilled or rejected.
C6_TierBarrier ==
  \A r \in Runs : \A p, q \in enabled :
     (TierOf(p) < TierOf(q) /\ task[r][q].pc # "none") => Settled(task[r][p])

\* A later tier is running after a tier in which a task failed.
C6_Witness ==
  \E r \in Runs : \E p, q \in enabled :
     /\ TierOf(p) < TierOf(q)
     /\ task[r][q].pc \in {"insert", "lookup", "link"}
     /\ task[r][p].pc = "rejected"

(* -------------------------------- C7 ---------------------------------- *)

\* C7: provider failure isolation.  A run in progress can always take a
\* step, whatever has failed in it; and once it is at or past the
\* staleness sweep every enabled provider, siblings and later tiers
\* included, has run until it settled.
C7_FailureIsolation ==
  \A r \in Runs :
     /\ InProgress(r) => ENABLED RunStep(r)
     /\ run[r].pc \in {"sweep", "returned", "threw"} =>
          \A p \in enabled : Settled(task[r][p])

\* A run returned its summary although one task rejected and a sibling
\* and a later tier ran to the end.
C7_Witness ==
  \E r \in Runs : \E p, q, s \in enabled :
     /\ run[r].pc = "returned"
     /\ task[r][p].pc = "rejected"
     /\ TierOf(q) = TierOf(p) /\ q # p /\ task[r][q].pc = "fulfilled"
     /\ TierOf(s) > TierOf(p) /\ task[r][s].pc = "fulfilled"

(* -------------------------------- C8 ---------------------------------- *)

\* C8, as claimed: in the summary a run returns, every provider that was
\* started has exactly one entry, and an entry that carries an error has
\* zero for every count.
C8_Claim ==
  \A r \in Runs :
     run[r].pc = "returned" =>
       /\ \A p \in enabled : Cardinality(EntriesOf(r, p)) = 1
       /\ \A k \in 1..Len(run[r].results) :
            run[r].results[k].error # NoError => ZeroCounts(run[r].results[k])

(* -------------------------------- C9 ---------------------------------- *)

\* C9, as claimed: at no time are two ingestion runs in progress.
C9_Claim == ~(InProgress("startup") /\ InProgress("cron"))

(* -------------------------------- C10 --------------------------------- *)

\* C10, as claimed: every call of runIngestion that returns has executed
\* markStaleJobs exactly once, for every provider configuration.
C10_Claim ==
  \A r \in Runs : run[r].pc = "returned" => run[r].sweeps = 1

\* C10, amended: a call of runIngestion with at least one provider enabled
\* calls markStaleJobs exactly once, and only after every provider of
\* every tier has settled; a call with no provider enabled returns an
\* empty summary without calling it.
C10_SweepOnceUnlessNoProvider ==
  \A r \in Runs :
     /\ run[r].sweeps <= 1
     /\ run[r].pc = "tiers" => run[r].sweeps = 0
     /\ run[r].sweeps = 1 => \A p \in enabled : Settled(task[r][p])
     /\ run[r].pc \in {"sweep", "returned", "threw"} =>
          IF enabled = {}
          THEN run[r].sweeps = 0 /\ run[r].pc = "returned" /\ run[r].results = <<>>
          ELSE run[r].sweeps = 1

\* A run over three providers has returned after its one sweep.
C10_Witness ==
  \E r \in Runs :
     /\ run[r].pc = "returned"
     /\ run[r].sweeps = 1
     /\ Cardinality(enabled) = 3

(* -------------------------------- C11 --------------------------------- *)

\* The jobs of the scoreNewJobs calls, as <<provider, index>> pairs.
ScoringJobs == {pk \in Providers \X JobSlots : pk[2] <= Len(scoreTask[pk[1]].job)}

JobOf(pk) == scoreTask[pk[1]].job[pk[2]]

NewJobOf(pk) == scoreTask[pk[1]].newJobs[pk[2]]

\* C11: duplicates are never scored: for no row whose likelyDuplicateOfId
\* is set is the extraction or the summarization service ever called, nor
\* a score written, by the ingestion scoring stage or by the re-score.
C11_Claim ==
  \A id \in RowIds :
     jobs[id].likelyDuplicateOfId # NULL =>
        /\ history[id].by = "none"
        /\ \A c \in calls : c.id # id
        /\ \A pk \in ScoringJobs : InFlight(JobOf(pk)) => RowOf(NewJobOf(pk)) # id

(* -------------------------------- C12 --------------------------------- *)

\* The extraction calls in flight, over all scoreNewJobs calls of the run.
ExtractionsInFlight == {pk \in ScoringJobs : JobOf(pk).pc = "analyze"}

\* C12: at any moment of a run at most SCORING_CONCURRENCY (5) extraction
\* calls are in flight, counted over all providers of the tier that are
\* scoring at the same time.
C12_Claim == Cardinality(ExtractionsInFlight) <= SCORING_CONCURRENCY

(* -------------------------------- C13 --------------------------------- *)

\* C13 as stated: the summarization service is called only for a score at
\* or above the threshold, and a row whose score was last written below
\* the threshold, by the ingestion scoring stage or by a re-score with
\* summaries, has a null summary.
C13_Claim ==
  /\ \A c \in calls : c.service = "summarization" => c.score >= SUMMARY_SCORE_THRESHOLD
  /\ \A id \in RowIds :
        (/\ history[id].by \in {"ingest", "rescoreWithSummaries"}
         /\ cols[id].score < SUMMARY_SCORE_THRESHOLD)
        => cols[id].summary = NoText

\* C13, amended: the summarization service is called, by the ingestion
\* scoring stage and by the re-score, only for a record whose score just
\* computed is at or above the threshold; the ingestion scoring stage
\* stores a null summary with a score below the threshold.  (The re-score
\* writes no summary below the threshold: a summary stored earlier stays.)
C13_ScoreGate ==
  /\ \A c \in calls : c.service = "summarization" => c.score >= SUMMARY_SCORE_THRESHOLD
  /\ \A pk \in ScoringJobs :
        /\ JobOf(pk).pc = "summarize" => JobOf(pk).score >= SUMMARY_SCORE_THRESHOLD
        /\ (JobOf(pk).pc = "update" /\ JobOf(pk).score < SUMMARY_SCORE_THRESHOLD)
           => JobOf(pk).summary = NoText
  /\ rescore.pc = "summarize" => rescore.score >= SUMMARY_SCORE_THRESHOLD
  /\ (rescore.pc = "update" /\ rescore.score < SUMMARY_SCORE_THRESHOLD)
     => rescore.summary = NoText
  /\ \A id \in RowIds :
        (history[id].by = "ingest" /\ cols[id].score < SUMMARY_SCORE_THRESHOLD)
        => cols[id].summary = NoText

\* The gate has been open for one record and shut for another: a
\* summarization call was made, ingestion has stored a score below the
\* threshold, and a re-score with summaries has written a row below it.
C13_Witness ==
  /\ \E c \in calls : c.service = "summarization"
  /\ \E id \in RowIds : /\ history[id].by = "ingest"
                        /\ cols[id].score < SUMMARY_SCORE_THRESHOLD
  /\ \E id \in RowIds : /\ history[id].by = "rescoreWithSummaries"
                        /\ cols[id].score < SUMMARY_SCORE_THRESHOLD

(* -------------------------------- C14 --------------------------------- *)

\* Some step of the scoreNewJobs call of provider p can be taken.
ScoringStep(p) ==
  \E k \in JobSlots :
     \/ AnalyzeJob(p, k)
     \/ GenerateSummary(p, k)
     \/ UpdateScore(p, k)

\* The scores scoreJob gives the DEFAULTS at a location.
DefaultScores(location) ==
  {ScoreWith(cfg, DEFAULTS, location).score : cfg \in world.configs}

ScoringColumns(id) ==
  [ seniority      |-> cols[id].seniority,
    interviewStyle |-> cols[id].interviewStyle,
    remoteEligible |-> cols[id].remoteEligible,
    score          |-> cols[id].score,
    scoreBreakdown |-> cols[id].scoreBreakdown,
    summary        |-> cols[id].summary ]

\* C15: a record scored from the fallback DEFAULTS is marked in the store:
\* a row scored from defaults can be told apart, by what is stored, from a
\* row scored from genuinely extracted metadata.
C15_Claim ==
  \A a, b \in RowIds :
     (/\ history[a].by = "ingest" /\ history[a].fromDefaults
      /\ history[b].by = "ingest" /\ ~history[b].fromDefaults)
     => ScoringColumns(a) # ScoringColumns(b)

(* -------------------------------- C16 --------------------------------- *)

\* C16: the stored score of every row is in [0, 10] after any sequence of
\* ingestion scoring and re-scoring, for every metadata tuple, location
\* and loaded scoring configuration.
C16_Claim == \A id \in RowIds : cols[id].score >= 0 /\ cols[id].score <= 1000

(* -------------------------------- C17 --------------------------------- *)

\* C17: a row without a description always has score = 0 and is never the
\* subject of a scoring attempt, after ingestion and after any number of
\* re-score passes.
C17_Claim ==
  \A id \in RowIds :
     ~cols[id].description => (cols[id].score = 0 /\ history[id].by = "none")

(* -------------------------------- C18 --------------------------------- *)

\* C18: isStale is monotonic: once a row has isStale = true, no operation
\* of the pipeline (fresh insert, re-observation update, scoring,
\* re-scoring, staleness sweep) sets it back to false.
C18_IsStaleMonotonic ==
  [][\A id \in RowIds : jobs[id].isStale => jobs'[id].isStale]_vars

\* A stale row has been re-observed (its updatedAt is fresh again) and the
\* run that re-observed it has swept and returned: the row is still stale.
C18_Witness ==
  \E id \in RowIds, r \in Runs :
     /\ jobs[id].isStale
     /\ ~jobs[id].old
     /\ run[r].pc = "returned"
     /\ run[r].sweeps = 1

(* -------------------------------- C19 --------------------------------- *)

\* C19: one execution of markStaleJobs sets isStale on exactly the rows
\* that were non-stale with updatedAt older than the retention window,
\* changes no other field and no row updated within the window, returns
\* the number of rows it marked, and every row it marked is excluded from
\* the listing query.
C19_SweepExactness ==
  [][\A r \in Runs :
       (run[r].pc = "sweep" /\ run'[r].pc = "returned") =>
          LET marked == {id \in RowIds : ~jobs[id].isStale /\ jobs[id].old}
          IN  /\ Len(jobs') = Len(jobs)
              /\ \A id \in RowIds :
                    jobs'[id] = IF id \in marked
                                THEN [jobs[id] EXCEPT !.isStale = TRUE]
                                ELSE jobs[id]
              /\ run'[r].staleMarked = Cardinality(marked)
              /\ \A id \in marked :
                    ~(~jobs'[id].isStale /\ jobs'[id].likelyDuplicateOfId = NULL)
              /\ marked \cap Listing' = {}]_vars

\* A sweep has marked a row and returned its count while another row,
\* updated within the window, was left alone.
C19_Witness ==
  \E r \in Runs, fresh \in RowIds :
     /\ run[r].pc = "returned"
     /\ run[r].staleMarked >= 1
     /\ ~jobs[fresh].old
     /\ ~jobs[fresh].isStale

(* -------------------------------- C20 --------------------------------- *)

\* C20: in every state after a completed run, every row with isStale =
\* true has updatedAt older than the retention window: a row re-observed
\* within the window is not stale.
C20_Claim ==
  Quiescent => \A id \in RowIds : jobs[id].isStale => jobs[id].old

(* -------------------------------- C21 --------------------------------- *)

\* The step of a task that ends its re-observation UPDATE (or its catch).
ReobservationStep(r, p) ==
  /\ task[r][p].pc = "refresh"
  /\ task'[r][p] # task[r][p]

\* C21: when insertNewJobs meets a posting whose (externalId, provider) is
\* already stored, it creates no row and changes only description,
\* compensation, location and updatedAt of the existing row: canonicalKey,
\* likelyDuplicateOfId, the scoring columns and isStale are left
\* unchanged, and the posting is neither counted as inserted nor passed
\* to scoring.
C21_ReobservationFrame ==
  [][\A r \in Runs, p \in Providers :
       ReobservationStep(r, p) =>
         LET t == task[r][p]
             job == t.batch[t.i]
         IN  /\ Len(jobs') = Len(jobs)
             /\ \A id \in RowIds :
                   /\ jobs'[id] \in {jobs[id], [jobs[id] EXCEPT !.old = FALSE]}
                   /\ id \notin ConflictRows(job) => jobs'[id] = jobs[id]
             /\ cols' = cols
             /\ task'[r][p].inserted = t.inserted
             /\ task'[r][p].duplicatesFound = t.duplicatesFound
             /\ task'[r][p].pc \in {"log", "score"} =>
                   task'[r][p].result.inserted = Len(t.inserted)
             /\ scoreTask' = scoreTask]_vars

\* A task has re-observed a stored row that had been marked stale: the
\* row's updatedAt is fresh, the row is still stale, and the task goes on
\* to its run log with nothing inserted.
C21_Witness ==
  \E r \in Runs, p \in Providers :
     LET t == task[r][p]
     IN  /\ t.pc = "log"
         /\ Len(t.batch) = 1
         /\ t.inserted = <<>>
         /\ t.result.inserted = 0
         /\ \E id \in ConflictRows(t.batch[1]) :
               /\ ~jobs[id].old
               /\ jobs[id].isStale
               /\ jobs[id].likelyDuplicateOfId = NULL

(* -------------------------------- C22 --------------------------------- *)

\* The elements of a list.
Range(seq) == {seq[k] : k \in 1..Len(seq)}

\* text contains keyword, letter case aside; an absent text contains
\* what the empty text does.
Contains(text, keyword) == Includes(ToLowerCase(OrEmpty(text)), ToLowerCase(keyword))

\* The title of job contains one of the keywords.
TitleMatches(job, keywords) ==
  \E i \in 1..Len(keywords) : Contains(job.title, keywords[i])

\* C22: for every posting and every filter configuration, if the title
\* contains any exclude keyword (letter case aside) then passesRoleFilter
\* is false whatever include keywords match; otherwise it is true exactly
\* when the title contains at least one include keyword.
C22_RoleFilter ==
  ingest.pc \in {"location", "normalize", "insert"} =>
    \A k \in 1..Len(ingest.rawJobs) :
       LET job == ingest.rawJobs[k]
           passes == job \in Range(ingest.roleFiltered)
       IN  IF TitleMatches(job, providersConfig.filters.exclude_titles)
           THEN ~passes
           ELSE passes <=> TitleMatches(job, providersConfig.filters.include_titles)

\* The role filter has rejected a posting whose title contains an
\* exclude keyword and an include keyword as well.
C22_Witness ==
  /\ ingest.pc = "location"
  /\ \E k \in 1..Len(ingest.rawJobs) :
        /\ TitleMatches(ingest.rawJobs[k], providersConfig.filters.exclude_titles)
        /\ TitleMatches(ingest.rawJobs[k], providersConfig.filters.include_titles)
        /\ ingest.rawJobs[k] \notin Range(ingest.roleFiltered)

(* -------------------------------- C23 --------------------------------- *)

\* The location or the description of job contains one of the keywords.
Mentions(job, keywords) ==
  \E i \in 1..Len(keywords) :
     Contains(job.location, keywords[i]) \/ Contains(job.description, keywords[i])

\* C23: passesLocationFilter passes a posting when its location or its
\* description contains a configured always-pass location keyword
\* (location_keywords), whatever onsite signals there are; otherwise it
\* passes exactly when a remote indicator occurs in location or
\* description and no onsite or hybrid indicator occurs in either.
C23_Claim ==
  ingest.pc \in {"normalize", "insert"} =>
    \A k \in 1..Len(ingest.roleFiltered) :
       LET job == ingest.roleFiltered[k]
           passes == job \in Range(ingest.locationFiltered)
       IN  IF Mentions(job, providersConfig.filters.location_keywords)
           THEN passes
           ELSE passes <=> ( /\ Mentions(job, providersConfig.filters.remote_indicators)
                             /\ ~Mentions(job, providersConfig.filters.onsite_indicators) )

(* -------------------------------- C24 --------------------------------- *)

\* The last segment of a canonical key is the sentinel fingerprint.
HasNoDescFingerprint(key) ==
  LET tail == KeySeparator \o NoDescFingerprint
  IN  /\ Len(key) >= Len(tail)
      /\ SubSeq(key, Len(key) - Len(tail) + 1, Len(key)) = tail

\* C24, as claimed: buildCanonicalKey is a function of (company, title,
\* description): equal inputs give equal keys, an absent description
\* gives the sentinel fingerprint segment, and two inputs with the same
\* company and title but different descriptions give different keys.
C24_Claim ==
  ingest.pc = "insert" =>
    \A i, j \in 1..Len(ingest.normalized) :
       LET a == ingest.normalized[i]
           b == ingest.normalized[j]
       IN  /\ (a.company = b.company /\ a.title = b.title /\ a.description = b.description)
                => a.canonicalKey = b.canonicalKey
           /\ a.description = Undefined => HasNoDescFingerprint(a.canonicalKey)
           /\ (a.company = b.company /\ a.title = b.title /\ a.description # b.description)
                => a.canonicalKey # b.canonicalKey

\* Two descriptions read the same to the fingerprint: both are absent or
\* empty, or both are not and they agree, letter case and runs of
\* whitespace aside, on their first 500 characters.
SameFingerprintText(d, e) ==
  IF Falsy(d) \/ Falsy(e) THEN Falsy(d) /\ Falsy(e)
  ELSE Slice(Trim(CollapseWhitespace(ToLowerCase(d))), FingerprintPrefix)
         = Slice(Trim(CollapseWhitespace(ToLowerCase(e))), FingerprintPrefix)

\* C24, amended: equal inputs give equal keys, an absent or empty
\* description gives the sentinel fingerprint segment, and two inputs with
\* the same company and title give the same key whenever their
\* descriptions read the same to the fingerprint.
C24_KeyByFingerprintText ==
  ingest.pc = "insert" =>
    \A i, j \in 1..Len(ingest.normalized) :
       LET a == ingest.normalized[i]
           b == ingest.normalized[j]
       IN  /\ (a.company = b.company /\ a.title = b.title /\ a.description = b.description)
                => a.canonicalKey = b.canonicalKey
           /\ Falsy(a.description) => HasNoDescFingerprint(a.canonicalKey)
           /\ ( /\ a.company = b.company /\ a.title = b.title
                /\ SameFingerprintText(a.description, b.description) )
                => a.canonicalKey = b.canonicalKey

\* Two postings of one company and title whose descriptions differ, one
\* of them beyond the 500th character of the other, have one key.
C24_Witness ==
  /\ ingest.pc = "insert"
  /\ \E i, j \in 1..Len(ingest.normalized) :
        LET a == ingest.normalized[i]
            b == ingest.normalized[j]
        IN  /\ a.company = b.company
            /\ a.title = b.title
            /\ a.description # b.description
            /\ Len(a.description) > FingerprintPrefix
            /\ a.canonicalKey = b.canonicalKey

(* -------------------------------- C25 --------------------------------- *)

\* C25: two postings that both lack a description never fingerprint-match:
\* no row without a description is linked (likelyDuplicateOfId) to another
\* row without a description on the strength of the canonical key, even
\* when company and title normalize to the same strings.
C25_Claim ==
  \A id \in RowIds :
     jobs[id].likelyDuplicateOfId # NULL =>
       ~( /\ HasNoDescFingerprint(jobs[id].canonicalKey)
          /\ HasNoDescFingerprint(jobs[jobs[id].likelyDuplicateOfId].canonicalKey) )

(* -------------------------------- C26 --------------------------------- *)

\* The waits pollUntilReady makes: 15 s, 30 s, 45 s, then 60 s.
PollWaits ==
  {k * POLL_INITIAL_INTERVAL_MS : k \in 1..(POLL_MAX_INTERVAL_MS \div POLL_INITIAL_INTERVAL_MS)}

\* C26: for each Bright Data sub-board, pollUntilReady ends no later than
\* POLL_TIMEOUT_MS (5 minutes) after polling began: with waits of 15 s,
\* 30 s, 45 s, then 60 s, no wait is started that ends after the 300 s
\* mark, and no status request is in flight, so no 'ready' accepted, after
\* 300 s have elapsed.
C26_Claim ==
  adapter.name = "brightdata" =>
    \A i \in BoardIds :
       /\ board[i].pc = "delay" =>
            /\ board[i].interval \in PollWaits
            /\ board[i].elapsed + board[i].interval <= POLL_TIMEOUT_MS
       /\ board[i].pc = "progress" => board[i].elapsed <= POLL_TIMEOUT_MS

(* -------------------------------- C27 --------------------------------- *)

\* C27: within one BrightDataProvider.fetchJobs call at most one trigger
\* request is sent for each sub-board, whatever becomes of the trigger, of
\* the polling or of the download; a failed trigger fails the sub-board
\* with no second trigger.
C27_NoTriggerRetry ==
  adapter.name = "brightdata" =>
    \A i \in BoardIds :
       /\ board[i].triggers <= 1
       /\ board[i].error = "trigger" =>
            /\ board[i].pc = "rejected"
            /\ board[i].triggers = 1

\* fetchJobs has returned after one sub-board failed at its trigger,
\* another after its trigger, and a third delivered its postings.
C27_Witness ==
  /\ adapter.name = "brightdata"
  /\ fetchCall.pc = "fulfilled"
  /\ \E i, j, k \in BoardIds :
        /\ board[i].error = "trigger"
        /\ board[j].error \in {"timeout", "failed", "progress", "download"}
        /\ board[k].pc = "fulfilled" /\ board[k].value # <<>>

(* -------------------------------- C28 --------------------------------- *)

\* A sub-board whose fetch has begun and has not settled.
BoardInFlight(b) == b.pc # "queued" /\ ~BoardSettled(b)

\* fetchJobs has not rejected, and what it returns are the postings of
\* the sub-boards that succeeded, each once.
ReturnsTheSucceeded ==
  /\ fetchCall.pc # "rejected"
  /\ fetchCall.pc = "fulfilled" =>
       /\ \A i \in BoardIds : BoardSettled(board[i])
       /\ \A i \in BoardIds :
             board[i].pc = "fulfilled" => Range(board[i].value) \subseteq Range(fetchCall.value)
       /\ \A posting \in Range(fetchCall.value) :
             \E i \in BoardIds :
                board[i].pc = "fulfilled" /\ posting \in Range(board[i].value)
       /\ Len(fetchCall.value) = Cardinality(Range(fetchCall.value))

\* A step in which a sub-board fails leaves every sibling in flight and
\* every settled sibling as it was, and fails no sibling.
FailureLeavesSiblings ==
  \A i \in BoardIds :
     (board[i].pc # "rejected" /\ board'[i].pc = "rejected") =>
        \A j \in BoardIds \ {i} :
           /\ (BoardInFlight(board[j]) \/ BoardSettled(board[j])) => board'[j] = board[j]
           /\ board'[j].pc = "rejected" => board[j].pc = "rejected"

\* C28: in every adapter's fetchJobs the failure of one sub-board (HTTP
\* error, failed snapshot or poll timeout) neither rejects fetchJobs nor
\* cancels or discards the sibling sub-boards, and fetchJobs returns
\* exactly the postings of the sub-boards that succeeded.
C28_SubBoardIsolation ==
  /\ []ReturnsTheSucceeded
  /\ [][FailureLeavesSiblings]_vars

\* fetchJobs of Bright Data has returned the postings of a sub-board
\* while another sub-board timed out.
C28_Witness ==
  /\ adapter.name = "brightdata"
  /\ fetchCall.pc = "fulfilled"
  /\ fetchCall.value # <<>>
  /\ \E i \in BoardIds : board[i].error = "timeout"

(* -------------------------------- C30 --------------------------------- *)

\* The Bright Data sub-boards between the start of their trigger and the
\* end of their download.
ActiveBoards == {i \in BoardIds : BoardActive(board[i])}

\* C30: during BrightDataProvider.fetchJobs at most BOARD_CONCURRENCY (3)
\* sub-boards are between the start of their trigger and the end of their
\* download, and a configured sub-board waits to be started only while
\* BOARD_CONCURRENCY others are: it is started in the step in which an
\* earlier one finishes or fails.
C30_BoardConcurrency ==
  adapter.name = "brightdata" =>
    /\ Cardinality(ActiveBoards) <= BOARD_CONCURRENCY
    /\ (fetchCall.pc # "idle" /\ \E i \in BoardIds : board[i].pc = "queued")
         => Cardinality(ActiveBoards) = BOARD_CONCURRENCY
    /\ fetchCall.pc = "fulfilled" => \A i \in BoardIds : board[i].pc # "queued"

\* The last sub-board has been started after an earlier one failed, and
\* BOARD_CONCURRENCY sub-boards are in progress.
C30_Witness ==
  /\ adapter.name = "brightdata"
  /\ Cardinality(ActiveBoards) = BOARD_CONCURRENCY
  /\ BoardActive(board[Len(board)])
  /\ \E i \in BoardIds : board[i].pc = "rejected"

(* -------------------------------- C29 --------------------------------- *)

\* The same-tier race: two provider tasks of one tier of run r have each
\* inserted a record of the same canonical key, and neither has run its
\* duplicate lookup.
SameTierRace(r, p, q) ==
  /\ p # q
  /\ TierOf(p) = TierOf(q)
  /\ task[r][p].pc = "lookup"
  /\ task[r][q].pc = "lookup"
  /\ task[r][p].batch[task[r][p].i].canonicalKey
       = task[r][q].batch[task[r][q].i].canonicalKey

\* The duplicate lookup of task p of run r, run now, finds no record.
ObservesNoExisting(r, p) ==
  SameKeyRows(task[r][p].batch[task[r][p].i].canonicalKey, task[r][p].newId) = {}

RECURSIVE CollectsInFlight(_, _)
CollectsInFlight(bs, k) ==
  IF k > Len(bs) THEN 0 ELSE bs[k].inFlight + CollectsInFlight(bs, k + 1)

\* C31: at any moment during CoresignalProvider.fetchJobs at most
\* COLLECT_CONCURRENCY (10) collect requests are in flight, counted over
\* all configured boards of the provider.
C31_Claim ==
  adapter.name = "coresignal" => CollectsInFlight(board, 1) <= COLLECT_CONCURRENCY

(* -------------------------------- C32 --------------------------------- *)

\* The search of a board holds at most maxCollect ids, and no more
\* collect requests than ids have been sent for the board.
WithinMaxCollect ==
  adapter.name = "coresignal" =>
    \A i \in BoardIds :
       /\ board[i].ids <= MaxCollectOf(board[i])
       /\ board[i].collects <= board[i].ids
       /\ board[i].inFlight <= board[i].collects

\* The search loop of a board goes on to another request only after a
\* page that was not empty and came with a next cursor, and below the cap.
SearchGoesOnBelowCap ==
  \A i \in BoardIds :
     (board[i].pc = "search" /\ board'[i].pc = "search" /\ board'[i] # board[i]) =>
        /\ board'[i].ids > board[i].ids
        /\ board'[i].afterCursor
        /\ board'[i].ids < MaxCollectOf(board[i])

\* C32: for every board the search step returns at most maxCollect ids
\* (default 50) whatever page sizes and cursors the service returns, so at
\* most maxCollect collect requests are issued for the board, and the
\* search loop ends as soon as a page is empty, no next cursor is given or
\* the cap is reached.
C32_CreditCap ==
  /\ []WithinMaxCollect
  /\ [][SearchGoesOnBelowCap]_vars

\* The board without maxCollect has been answered with more ids than the
\* default cap, and its fetch has ended after DEFAULT_MAX_COLLECT collect
\* requests; the board with maxCollect 6 got its ids from two pages.
C32_Witness ==
  /\ adapter.name = "coresignal"
  /\ \E i, j \in BoardIds :
        /\ board[i].maxCollect = NoMaxCollect
        /\ board[i].pc = "fulfilled"
        /\ board[i].collects = DEFAULT_MAX_COLLECT
        /\ board[j].maxCollect # NoMaxCollect
        /\ board[j].afterCursor
        /\ board[j].collects = board[j].maxCollect

(* -------------------------------- C33 --------------------------------- *)

\* C33: when the monthly usage the usage checker reports is at or above
\* monthlyBudget, or the usage check fails, every search of that fetchJobs
\* call requests at most one page, whatever the depth of the hour and
\* maxPages are.
C33_BudgetGuard ==
  ( /\ adapter.name = "serpapi"
    /\ \/ serpapi.check = "failed"
       \/ serpapi.check = "returned" /\ serpapi.used >= adapter.monthlyBudget )
  => \A i \in BoardIds : board[i].requests <= 1

\* At an hour of depth 3 the checker reported the budget as used up, and
\* fetchJobs has returned after a search whose only page came with a next
\* page token.
C33_Witness ==
  /\ adapter.name = "serpapi"
  /\ serpapi.check = "returned"
  /\ serpapi.used >= adapter.monthlyBudget
  /\ serpapi.maxDepth = 3
  /\ fetchCall.pc = "fulfilled"
  /\ \E i \in BoardIds :
        /\ board[i].requests = 1
        /\ board[i].nextPageToken
        /\ board[i].value # <<>>

(* -------------------------------- C39 --------------------------------- *)

\* C39: the usage figure the SerpApi budget guard compares with
\* monthlyBudget equals the number of SerpApi search requests issued since
\* the start of the month (one per page fetched per board), so the guard
\* forces depth 1 no later than when the number of requests reaches
\* monthlyBudget.  Stated where fetchJobs waits for the figure: the rows
\* the checker counts are as many as the requests, and they have reached
\* monthlyBudget when the requests have.
C39_Claim ==
  (adapter.name = "serpapi" /\ \E i \in BoardIds : board[i].pc = "usage") =>
     /\ serpapi.logged = serpapi.requests
     /\ serpapi.requests >= adapter.monthlyBudget => serpapi.logged >= adapter.monthlyBudget

(* ------------------------ C38: guard release -------------------------- *)

\* The scheduled run is in progress: between the tick that started it and
\* the handler's finally.
ScheduledRunInProgress == run["cron"].pc # "idle"

\* The guard is set only while the scheduled run is in progress.
GuardReleased == isRunning => ScheduledRunInProgress

\* A tick is skipped only while the scheduled run is in progress.
SkippedOnlyWhileRunning ==
  (lastTick' = "skipped" /\ lastTick # "skipped") => ScheduledRunInProgress

\* A tick that finds no scheduled run in progress starts one.
TickStartsRun ==
  (ticks' = ticks + 1) => (~ScheduledRunInProgress /\ isRunning' /\ run'["cron"].pc # "idle")

InsertPostings ==
  [ externalId  : {"e1", "e2"},
    title       : {<<"S", "W", "E">>},
    company     : {<<"A", "c", "m", "e", " ", "I", "n", "c", ".">>},
    location    : {<<"R", "e", "m", "o", "t", "e">>},
    description : {Undefined, <<"B", "u", "i", "l", "d", " ", "A", "P", "I", "s">>} ]

\* The two providers of the first tier whose tasks run side by side.
InsertProviders == {"greenhouse", "ashby"}

\* Number of records of a batch.
BatchLen == 2

\* The batches fetchJobs has returned: any two postings for greenhouse (a
\* posting may come twice); for ashby the posting e1 with a description
\* and the posting e2 without one.
InsertBatches(p) ==
  {raw \in [1..BatchLen -> InsertPostings] :
     p = "ashby" => (raw[1].externalId = "e1" /\ raw[1].description # Undefined
                     /\ raw[2].externalId = "e2" /\ raw[2].description = Undefined)}

\* runProviderIngestion after fetchJobs has returned raw: the filters and
\* the normalizer have run and the first INSERT is awaited.
Inserting(p, raw) ==
  LET roleFiltered ==
        SelectSeq(raw, LAMBDA job : PassesRoleFilter(job, ConfiguredFilters))
      locationFiltered ==
        SelectSeq(roleFiltered, LAMBDA job : PassesLocationFilter(job, ConfiguredFilters))
  IN  [NotStarted(p) EXCEPT !.pc = "insert",
                            !.batch = NormalizeJobs(locationFiltered, p),
                            !.i = 1,
                            !.result.fetched = Len(raw),
                            !.result.afterRoleFilter = Len(roleFiltered),
                            !.result.afterLocationFilter = Len(locationFiltered)]

\* A scheduled run in its first tier: greenhouse and ashby have both
\* fetched a batch of BatchLen postings and wait for their first INSERT.
InitInsert ==
  /\ jobs = <<>>
  /\ enabled = InsertProviders
  /\ runOnStartup = FALSE
  /\ catalog = InsertPostings
  /\ booted = TRUE
  /\ isRunning = TRUE
  /\ ticks = 1
  /\ lastTick = "ran"
  /\ faults = 0
  /\ run = [r \in Runs |->
              IF r = "cron"
              THEN [NoRun EXCEPT !.pc = "tiers", !.tier = TierOf("greenhouse")]
              ELSE NoRun]
  /\ \E g \in InsertBatches("greenhouse"), a \in InsertBatches("ashby") :
       task = [r \in Runs |->
                 [p \in Providers |->
                    IF r = "cron" /\ p = "greenhouse" THEN Inserting(p, g)
                    ELSE IF r = "cron" /\ p = "ashby" THEN Inserting(p, a)
                    ELSE NotStarted(p)]]
  /\ ScoringNotModelled
  /\ NormalizerNotModelled
  /\ AdapterNotModelled

NextInsert ==
  \/ \E p \in InsertProviders : InsertJob("cron", p)
  \/ \E p \in InsertProviders : LookupExisting("cron", p)
  \/ \E p \in InsertProviders : LinkDuplicate("cron", p)
  \/ \E p \in InsertProviders : RefreshJob("cron", p)
  \/ \E p \in InsertProviders : ScoreNewJobs("cron", p)
  \/ \E p \in InsertProviders : LogIngestion("cron", p)
  \/ \E p \in InsertProviders : CatchLogIngestion("cron", p)

SpecInsert == InitInsert /\ [][NextInsert]_vars

(* ------------------ C34: per-record persistence errors ---------------- *)

\* The statements of one record of the insert loop.
InsertStatements == {"insert", "lookup", "link", "refresh"}

\* A statement of p's current record throws in this step.
StatementThrows(p) ==
  /\ task["cron"][p].pc \in InsertStatements
  /\ task'["cron"][p] # task["cron"][p]
  /\ faults' = faults + 1

\* The record is skipped: nothing is added to inserted or to the count of
\* duplicates, and the loop goes on with the next record of the batch or,
\* after the last one, returns the result to runProviderIngestion's try.
RecordSkipped(p) ==
  LET t == task["cron"][p]
      u == task'["cron"][p]
  IN  /\ u.inserted = t.inserted
      /\ u.duplicatesFound = t.duplicatesFound
      /\ u.batch = t.batch
      /\ IF t.i < Len(t.batch)
         THEN u.pc = "insert" /\ u.i = t.i + 1
         ELSE /\ u.pc \in {"score", "log"}
              /\ u.result.inserted = Len(t.inserted)
              /\ u.result.error = NoError

\* runProviderIngestion's catch is entered from its run log only.
CatchOnlyFromLog(p) ==
  (task'["cron"][p].pc = "catchlog" /\ task["cron"][p].pc # "catchlog")
    => task["cron"][p].pc = "log"

\* Every record of the batch has had its turn when the loop is over.
LoopCoversBatch ==
  \A p \in InsertProviders :
    task["cron"][p].pc \notin InsertStatements => task["cron"][p].i = Len(task["cron"][p].batch)

\* C34: when the insert, the duplicate lookup, the duplicate-link update
\* or the re-observation update of one record throws, insertNewJobs skips
\* that record (not counted as inserted, not passed to scoring) and goes on
\* to every remaining record of the batch; insertNewJobs never throws.
C34_PerRecordErrors ==
  /\ []LoopCoversBatch
  /\ [][\A p \in InsertProviders : StatementThrows(p) => RecordSkipped(p)]_vars
  /\ [][\A p \in InsertProviders : CatchOnlyFromLog(p)]_vars

\* The INSERT of greenhouse's first record threw (no row of it is stored)
\* and its second record was inserted and passed on.
C34_Witness ==
  LET t == task["cron"]["greenhouse"]
  IN  /\ t.pc = "score"
      /\ Len(t.batch) = BatchLen
      /\ t.batch[1].externalId # t.batch[2].externalId
      /\ t.inserted = <<t.batch[2]>>
      /\ faults > 0
      /\ \A id \in RowIds :
           ~(jobs[id].provider = "greenhouse" /\ jobs[id].externalId = t.batch[1].externalId)

(* -------------------------------- C35 --------------------------------- *)

\* Two rows that are flagged as duplicates of each other.
MutualDuplicates(a, b) ==
  /\ a # b
  /\ jobs[a].likelyDuplicateOfId = b
  /\ jobs[b].likelyDuplicateOfId = a

\* C35, as claimed: under any interleaving of concurrent insertNewJobs
\* tasks, every canonicalKey present in the store keeps at least one row
\* with likelyDuplicateOfId = NULL, and no two rows are flagged as
\* duplicates of each other.
C35_Claim ==
  /\ \A id \in RowIds :
        \E primary \in RowsOfKey(jobs[id].canonicalKey) :
           jobs[primary].likelyDuplicateOfId = NULL
  /\ \A a, b \in RowIds : ~MutualDuplicates(a, b)

(* -------------------------------- C36 --------------------------------- *)

\* Every link points to a primary: the store is free of the cycles and
\* chains a same-tier race leaves.
LinksFlat ==
  \A id \in RowIds :
     jobs[id].likelyDuplicateOfId # NULL =>
       jobs[jobs[id].likelyDuplicateOfId].likelyDuplicateOfId = NULL

\* C36, as claimed: whenever the store holds a non-stale row of a
\* canonical key, the listing query (isStale = false and
\* likelyDuplicateOfId NULL) returns at least one row of that key: a
\* primary that goes stale does not hide its re-observed duplicates.
\* Stated for the stores whose links all point to primaries and for
\* behaviours in which no I/O call has failed.
C36_Claim ==
  (LinksFlat /\ faults = 0) =>
    \A id \in RowIds :
       ~jobs[id].isStale =>
         \E shown \in Listing : jobs[shown].canonicalKey = jobs[id].canonicalKey

(* -------------------------------- C37 --------------------------------- *)

\* The re-score writes the row it has just scored.
RescoreWrites(id) ==
  /\ rescore.pc = "update"
  /\ rescore.allJobs[rescore.k].id = id
  /\ cols'[id] # cols[id]

\* The row holds what the ingestion scoring stage wrote, computed under
\* the configuration that is loaded now, and the re-score has selected the
\* row as it is stored now.
IngestionScored(id) ==
  LET row == rescore.allJobs[rescore.k]
  IN  /\ history[id].by = "ingest"
      /\ history[id].config = <<config>>
      /\ row.seniority = cols[id].seniority
      /\ row.remoteEligible = cols[id].remoteEligible
      /\ row.interviewStyle = cols[id].interviewStyle
      /\ row.location = cols[id].location

\* C37, as claimed: a manual re-score with an unchanged scoring
\* configuration and without summaries leaves score and scoreBreakdown of
\* every non-stale row equal to the values the ingestion scoring stage
\* wrote for it, and touches no stale row.
C37_Claim ==
  [][\A id \in RowIds :
       /\ (RescoreWrites(id) /\ ~rescore.withSummaries /\ IngestionScored(id))
            => /\ cols'[id].score = cols[id].score
               /\ cols'[id].scoreBreakdown = cols[id].scoreBreakdown
       /\ (rescore.pc = "update" /\ jobs[id].isStale) => cols'[id] = cols[id]]_vars

(* --------------- runs that meet a stored, unscored row ---------------- *)

\* A posting that passes both filters and has a description.
DescribedPosting ==
  [BarePosting EXCEPT !.description = <<"B", "u", "i", "l", "d", " ", "A", "P", "I", "s">>]

\* In-memory jobs of a scoreNewJobs call that are not skipped for want of
\* a description (the duplicate skip reads a property the NewJob lacks).
Described(inserted) == {k \in 1..Len(inserted) : ~Falsy(inserted[k].description)}

\* scoreNewJobs(inserted) with the calls it makes: analyzeJob is called
\* for every job with a description; every job's scoring then runs to its
\* end (scored++) or is caught; then the run log is written.
ScoreNewJobsCalls(r, p) ==
  LET t == task[r][p]
  IN  /\ t.pc = "score"
      /\ \E n \in 0..Cardinality(Described(t.inserted)) :
           SetTask(r, p, [t EXCEPT !.pc = "log", !.result.scored = n])
      /\ calls' = calls \cup {[service |-> "extraction", id |-> RowOf(t.inserted[k]),
                               score |-> 0, by |-> "ingest"] : k \in Described(t.inserted)}
      /\ UNCHANGED <<jobs, enabled, runOnStartup, catalog, booted, isRunning, ticks, lastTick, run, faults>>
      /\ UNCHANGED <<cols, config, world, scoreTask, rescore, rescores, history>>
      /\ UNCHANGED stageVars

\* The process starts with greenhouse alone, an empty store, the startup
\* run switched on and a source that serves one posting with a description.
InitRetry ==
  /\ enabled = {"greenhouse"}
  /\ runOnStartup = TRUE
  /\ catalog = {DescribedPosting}
  /\ jobs = <<>>
  /\ booted = FALSE
  /\ isRunning = FALSE
  /\ ticks = 0
  /\ lastTick = "none"
  /\ faults = 0
  /\ run = [r \in Runs |-> NoRun]
  /\ task = [r \in Runs |-> [p \in Providers |-> NotStarted(p)]]
  /\ ScoringNotModelled
  /\ NormalizerNotModelled
  /\ AdapterNotModelled

\* The steps of Next with the calls of the scoring stage recorded; with one
\* provider and one posting no lookup finds a second row of the key.
NextRetry ==
  \/ Main
  \/ CronTick
  \/ \E r \in Runs : TierDone(r)
  \/ \E r \in Runs : MarkStaleJobs(r)
  \/ \E r \in Runs : Finish(r)
  \/ RetentionWindowPasses
  \/ \E r \in Runs : FetchJobs(r, "greenhouse")
  \/ \E r \in Runs : InsertJob(r, "greenhouse")
  \/ \E r \in Runs : LookupExisting(r, "greenhouse")
  \/ \E r \in Runs : RefreshJob(r, "greenhouse")
  \/ \E r \in Runs : ScoreNewJobsCalls(r, "greenhouse")
  \/ \E r \in Runs : LogIngestion(r, "greenhouse")
  \/ \E r \in Runs : CatchLogIngestion(r, "greenhouse")

SpecRetry == InitRetry /\ [][NextRetry]_vars

(* -------------------------------- C40 --------------------------------- *)

\* The scoring stage has been entered for the row at least once.
PickedUpForScoring(id) ==
  \E c \in calls : c.service = "extraction" /\ c.id = id

\* Task (r, p) re-observes a stored row in this step while no other run is
\* in progress: the row was stored by a run that has ended.
LaterRunReobserves(r, p, id) ==
  /\ task[r][p].pc = "refresh"
  /\ task'[r][p] # task[r][p]
  /\ id \in ConflictRows(task[r][p].batch[task[r][p].i])
  /\ \A o \in Runs \ {r} : run[o].pc = "idle"

\* C40, as claimed: a freshly inserted row that is not a duplicate and has
\* a description, and for which scoring has not been entered (its
\* post-insert lookup threw after the row was stored), is picked up for
\* scoring by a later ingestion run: the run that observes its posting
\* again puts the job on the list it hands to scoreNewJobs.
C40_Claim ==
  [][\A r \in Runs, p \in Providers, id \in RowIds :
       ( /\ LaterRunReobserves(r, p, id)
         /\ jobs[id].likelyDuplicateOfId = NULL
         /\ ~Falsy(task[r][p].batch[task[r][p].i].description)
         /\ ~PickedUpForScoring(id) )
       => \E k \in 1..Len(task'[r][p].inserted) :
             task'[r][p].inserted[k] = task[r][p].batch[task[r][p].i]]_vars

====
